---- MODULE Spec2Model ----
(***************************************************************************)
(* The workflow graphs of the labs (sequential contract review, support    *)
(* hand-off, fan-out/fan-in translation) run by the StateGraph engine:     *)
(* a run proceeds in steps; the nodes scheduled for a step all receive the *)
(* state as it is at the beginning of the step, run concurrently, and      *)
(* their returned dictionaries are merged into the state when all of them  *)
(* have returned; then the targets of their outgoing edges are scheduled.  *)
(*                                                                         *)
(* A text is a sequence of one-character strings; "" is << >>.             *)
(***************************************************************************)
EXTENDS Naturals, Sequences, FiniteSets, TLC

VARIABLES
    pc,             \* "idle" | "running" | "done" | "failed": the current invoke
    wf,             \* the workflow being invoked
    initial_state,  \* the dict the caller passes to invoke
    state,          \* the engine's state (one value per declared field)
    tasks,          \* node -> status, for the nodes scheduled in the current step
    seen,           \* node -> the state the node function received
    writes,         \* node -> returned dict, not yet merged (current step)
    routed,         \* targets chosen by conditional edges in the current step
    replies,        \* node -> content of the reply of llm.invoke in that node
    returned,       \* node -> the dict the node function returned (this run)
    events,         \* <<"start" | "return" | "raise", node>>, in order of occurrence
    merged,         \* nodes whose returned dict has been merged into state
    result,         \* << >>, or <<v>> when the caller of invoke has returned v
    api_key,        \* whether OPENAI_API_KEY is set in the environment
    event,          \* << >>, or <<reply_token, user_id, signature>>: the message event
                    \* being handled and the signature of the request that brought it
    sent,           \* the replies sent for that event: [reply_token, text]
    http_response,  \* "none", "pending" while the webhook request is served, "OK" or "400"
    checkpointer,   \* thread_id -> the messages of the thread's latest checkpoint
    current_thread_id,  \* "None" or the thread_id of the agent's current conversation
    uuids,          \* how many thread ids new_conversation has generated
    calls           \* call -> the stream_chat call: its thread, position and messages

bot_vars == <<api_key, event, sent, http_response>>

chat_vars == <<checkpointer, current_thread_id, uuids, calls>>

vars == <<pc, wf, initial_state, state, tasks, seen, writes, routed, replies,
          returned, events, merged, result, api_key, event, sent,
          http_response, checkpointer, current_thread_id, uuids, calls>>

----------------------------------------------------------------------------
(* Bounds and input alphabets *)

\* longest fragment sequence a streaming call yields
MaxChunks == 2

\* the fragments a stream may yield (chunk.content); << >> is an empty fragment
Chunks == {<< >>, <<"a">>}

Streams == UNION {[1..n -> Chunks] : n \in 0..MaxChunks}

\* caller-supplied contents (contract, question, source text)
Contents == {<<"x">>, <<"y", "z">>}

EmptyMap == [k \in {} |-> << >>]

\* reply tokens of message events
ReplyTokens == {"t1", "t2"}

\* user ids of the senders of message events
UserIds == {"U1", "U2"}

\* values of the X-Line-Signature header: missing, the signature of the body, another one
Signatures == {"", "signed", "forged"}

\* whether handler.handle raises InvalidSignatureError for the header's value
InvalidSignatureError(signature) == signature # "signed"

\* the fixed text sent when the workflow raised
Apology == <<"s", "o", "r", "r", "y">>

----------------------------------------------------------------------------
(* Category names and classifier replies *)

HR == <<"h", "r">>
IT == <<"i", "t">>
COMPLIANCE == <<"c", "o", "m", "p", "l", "i", "a", "n", "c", "e">>

\* contents the classifier may answer with
Replies ==
    { HR, IT, COMPLIANCE,
      <<" ", "H", "R", "\n">>,
      <<"I", "t">>,
      <<"C", "o", "m", "p", "l", "i", "a", "n", "c", "e", " ">>,
      << >>,
      <<" ">>,
      <<"h", "r", " ", "i", "t">>,
      <<"o", "t", "h", "e", "r">> }

Whitespace == {" ", "\n", "\t", "\r"}

\* str.lower() on one character
LowerChar(c) ==
    CASE c = "H" -> "h"
      [] c = "R" -> "r"
      [] c = "I" -> "i"
      [] c = "T" -> "t"
      [] c = "C" -> "c"
      [] c = "P" -> "p"
      [] OTHER -> c

\* str.lower()
Lower(s) == [i \in 1..Len(s) |-> LowerChar(s[i])]

\* str.strip(): drop leading and trailing whitespace
RECURSIVE LStrip(_)
LStrip(s) ==
    IF s # << >> /\ Head(s) \in Whitespace THEN LStrip(Tail(s)) ELSE s

RECURSIVE RStrip(_)
RStrip(s) ==
    IF s # << >> /\ s[Len(s)] \in Whitespace
    THEN RStrip(SubSeq(s, 1, Len(s) - 1))
    ELSE s

Strip(s) == RStrip(LStrip(s))

\* part in text: part occurs in text as a contiguous piece
Contains(text, part) ==
    \E i \in 0..(Len(text) - Len(part)) :
        SubSeq(text, i + 1, i + Len(part)) = part

----------------------------------------------------------------------------
(* State schemas and merge *)

ContractReviewState ==
    {"contract_content", "text_review", "legal_review", "revision_suggestions"}

SupportState == {"user_question", "question_category", "agent_response"}

TranslationState ==
    {"source_content", "chinese_translation", "japanese_translation",
     "french_translation", "aggregated_result"}

\* faulty variant: the returned dict is substituted for the state
MergeSubstitute(current, update) ==
    [k \in DOMAIN current \cup DOMAIN update |->
        IF k \in DOMAIN update THEN update[k] ELSE << >>]

\* faulty variant: the merged state has only the fields of the returned dict
MergeDropUnwritten(current, update) ==
    [k \in DOMAIN update |-> update[k]]

\* the returned dict is merged into the state, not substituted for it
Merge(current, update) ==
    [k \in DOMAIN current \cup DOMAIN update |->
        IF k \in DOMAIN update THEN update[k] ELSE current[k]]

----------------------------------------------------------------------------
(* Node functions: (state, output of the text-generation call) -> returned dict *)

\* faulty variant: result_content = chunk.content, the last fragment wins
RECURSIVE ConsumeFromLast(_, _, _)
ConsumeFromLast(stream, i, acc) ==
    IF i > Len(stream)
    THEN acc
    ELSE ConsumeFromLast(stream, i + 1,
                         IF stream[i] # << >> THEN stream[i] ELSE acc)

\* result = ""; for chunk in llm.stream(messages): if chunk.content: result += chunk.content
RECURSIVE ConsumeFrom(_, _, _)
ConsumeFrom(stream, i, acc) ==
    IF i > Len(stream)
    THEN acc
    ELSE ConsumeFrom(stream, i + 1,
                     IF stream[i] # << >> THEN acc \o stream[i] ELSE acc)

ConsumeStream(stream) == ConsumeFrom(stream, 1, << >>)

\* complete texts a non-streaming call may answer with
Answers == {ConsumeStream(s) : s \in Streams}

agent1_text_review(s, stream) == "text_review" :> ConsumeStream(stream)

agent2_legal_review(s, stream) == "legal_review" :> ConsumeStream(stream)

agent3_revision_suggestions(s, stream) ==
    "revision_suggestions" :> ConsumeStream(stream)

valid_categories == {HR, IT, COMPLIANCE}

\* keys of the dict category_names
category_names == {HR, IT, COMPLIANCE}

\* the dict a node function "returns" when it raises instead
Raise(error) == "__raise__" :> error

Raises(update) == "__raise__" \in DOMAIN update

KeyError == <<"K", "e", "y", "E", "r", "r", "o", "r">>

\* faulty variant: no fallback for a category that is not valid
triage_agent_no_fallback(s, content) ==
    LET category == Lower(Strip(content))
    IN  IF category \notin category_names
        THEN Raise(KeyError)
        ELSE "question_category" :> category

\* lab5: category = response.content.strip().lower(); a category that is not
\* valid becomes "it"; category_names[category] is then looked up for printing
triage_agent(s, content) ==
    LET stripped == Lower(Strip(content))
        category == IF stripped \notin valid_categories THEN IT ELSE stripped
    IN  IF category \notin category_names
        THEN Raise(KeyError)
        ELSE "question_category" :> category

\* faulty variant: the classifier's reply is returned without the validity test
linebot_triage_agent_unchecked(s, content) ==
    "question_category" :> Lower(Strip(content))

\* linebot: the same classification; the category itself is printed
linebot_triage_agent(s, content) ==
    LET stripped == Lower(Strip(content))
        category == IF stripped \notin valid_categories THEN IT ELSE stripped
    IN  "question_category" :> category

\* lab5 specialists stream their answer
hr_agent(s, stream) == "agent_response" :> ConsumeStream(stream)

it_agent(s, stream) == "agent_response" :> ConsumeStream(stream)

compliance_agent(s, stream) == "agent_response" :> ConsumeStream(stream)

\* linebot specialists return response.content of llm.invoke
linebot_hr_agent(s, content) == "agent_response" :> content

linebot_it_agent(s, content) == "agent_response" :> content

linebot_compliance_agent(s, content) == "agent_response" :> content

chinese_translator_agent(s, stream) ==
    "chinese_translation" :> ConsumeStream(stream)

japanese_translator_agent(s, stream) ==
    "japanese_translation" :> ConsumeStream(stream)

\* faulty variant: the translator also returns the field of the source text
french_translator_agent_overwriting(s, stream) ==
    ("french_translation" :> ConsumeStream(stream))
        @@ ("source_content" :> << >>)

french_translator_agent(s, stream) ==
    "french_translation" :> ConsumeStream(stream)

\* faulty variant: the f-string leaves out the French translation
aggregator_without_french(s) ==
    "aggregated_result" :>
        (<<"[">> \o s["source_content"] \o <<"|">>
                 \o s["chinese_translation"] \o <<"|">>
                 \o s["japanese_translation"] \o <<"]">>)

\* the f-string of the aggregator: header, the four texts between rules, footer
aggregator(s) ==
    "aggregated_result" :>
        (<<"[">> \o s["source_content"] \o <<"|">>
                 \o s["chinese_translation"] \o <<"|">>
                 \o s["japanese_translation"] \o <<"|">>
                 \o s["french_translation"] \o <<"]">>)

START == "__start__"
END == "__end__"

\* faulty variant: the branches of "hr" and "it" are exchanged
route_to_specialist_swapped(s) ==
    LET category == s["question_category"]
    IN  IF category = HR THEN "it_agent"
        ELSE IF category = IT THEN "hr_agent"
        ELSE "compliance_agent"

\* faulty variant: the else branch names no node of the graph
route_to_specialist_undeclared(s) ==
    LET category == s["question_category"]
    IN  IF category = HR THEN "hr_agent"
        ELSE IF category = IT THEN "it_agent"
        ELSE "compliance"

\* faulty variant: the router also looks at user_question
route_to_specialist_by_question(s) ==
    LET category == s["question_category"]
    IN  IF s["user_question"] = <<"x">> THEN "hr_agent"
        ELSE IF category = HR THEN "hr_agent"
        ELSE IF category = IT THEN "it_agent"
        ELSE "compliance_agent"

route_to_specialist(s) ==
    LET category == s["question_category"]
    IN  IF category = HR THEN "hr_agent"
        ELSE IF category = IT THEN "it_agent"
        ELSE "compliance_agent"

linebot_route_to_specialist(s) ==
    LET category == s["question_category"]
    IN  IF category = HR THEN "hr_agent"
        ELSE IF category = IT THEN "it_agent"
        ELSE "compliance_agent"

----------------------------------------------------------------------------
(* Graph definitions *)

\* faulty variant: legal_review is wired to START instead of text_review
create_contract_review_workflow_fanout ==
    [ nodes |-> <<"legal_review", "revision_suggestions", "text_review">>,
      edges |-> { <<START, "text_review">>,
                  <<START, "legal_review">>,
                  <<"legal_review", "revision_suggestions">>,
                  <<"revision_suggestions", END>> },
      conditional |-> {} ]

\* nodes: the registered nodes, in the order in which the engine merges the
\* dicts returned in one step (by node name)
create_contract_review_workflow ==
    [ nodes |-> <<"legal_review", "revision_suggestions", "text_review">>,
      edges |-> { <<START, "text_review">>,
                  <<"text_review", "legal_review">>,
                  <<"legal_review", "revision_suggestions">>,
                  <<"revision_suggestions", END>> },
      conditional |-> {} ]

\* faulty variant: hr_agent is wired to it_agent, not to END
create_support_workflow_detour ==
    [ nodes |-> <<"compliance_agent", "hr_agent", "it_agent", "triage_agent">>,
      edges |-> { <<START, "triage_agent">>,
                  <<"hr_agent", "it_agent">>,
                  <<"it_agent", END>>,
                  <<"compliance_agent", END>> },
      conditional |-> {"triage_agent"} ]

create_support_workflow ==
    [ nodes |-> <<"compliance_agent", "hr_agent", "it_agent", "triage_agent">>,
      edges |-> { <<START, "triage_agent">>,
                  <<"hr_agent", END>>,
                  <<"it_agent", END>>,
                  <<"compliance_agent", END>> },
      conditional |-> {"triage_agent"} ]

linebot_create_support_workflow ==
    [ nodes |-> <<"compliance_agent", "hr_agent", "it_agent", "triage_agent">>,
      edges |-> { <<START, "triage_agent">>,
                  <<"hr_agent", END>>,
                  <<"it_agent", END>>,
                  <<"compliance_agent", END>> },
      conditional |-> {"triage_agent"} ]

\* faulty variant: french_translator is wired after chinese_translator, not to START
create_translation_workflow_chained ==
    [ nodes |-> <<"aggregator", "chinese_translator", "french_translator",
                  "japanese_translator">>,
      edges |-> { <<START, "chinese_translator">>,
                  <<START, "japanese_translator">>,
                  <<"chinese_translator", "french_translator">>,
                  <<"chinese_translator", "aggregator">>,
                  <<"japanese_translator", "aggregator">>,
                  <<"french_translator", "aggregator">>,
                  <<"aggregator", END>> },
      conditional |-> {} ]

create_translation_workflow ==
    [ nodes |-> <<"aggregator", "chinese_translator", "french_translator",
                  "japanese_translator">>,
      edges |-> { <<START, "chinese_translator">>,
                  <<START, "japanese_translator">>,
                  <<START, "french_translator">>,
                  <<"chinese_translator", "aggregator">>,
                  <<"japanese_translator", "aggregator">>,
                  <<"french_translator", "aggregator">>,
                  <<"aggregator", END>> },
      conditional |-> {} ]

Workflows == {"review", "support", "linebot", "translation"}

Graph(w) ==
    CASE w = "review" -> create_contract_review_workflow
      [] w = "support" -> create_support_workflow
      [] w = "linebot" -> linebot_create_support_workflow
      [] w = "translation" -> create_translation_workflow

NodesOf(w) == {Graph(w).nodes[i] : i \in 1..Len(Graph(w).nodes)}

AllNodes == UNION {NodesOf(w) : w \in Workflows}

\* targets of the unconditional edges leaving n
Targets(w, n) == {e[2] : e \in {d \in Graph(w).edges : d[1] = n}}

\* nodes whose function calls llm.stream / llm.invoke / no collaborator
StreamNodes(w) ==
    CASE w = "review" -> NodesOf(w)
      [] w = "support" -> {"hr_agent", "it_agent", "compliance_agent"}
      [] w = "linebot" -> {}
      [] w = "translation" ->
            {"chinese_translator", "japanese_translator", "french_translator"}

InvokeNodes(w) ==
    CASE w = "support" -> {"triage_agent"}
      [] w = "linebot" -> NodesOf(w)
      [] OTHER -> {}

\* create_llm of the webhook service raises ValueError when OPENAI_API_KEY is
\* missing; every node function of the service calls it before its model call
create_llm_raises(w) == w = "linebot" /\ ~api_key

\* what the collaborator may hand to node n
Outputs(w, n) ==
    IF n \in StreamNodes(w) THEN Streams
    ELSE IF n = "triage_agent" THEN Replies
    ELSE IF n \in InvokeNodes(w) THEN Answers
    ELSE {<< >>}

\* the dict node n returns on input s when the collaborator answers out
RunNode(w, n, s, out) ==
    CASE n = "text_review" -> agent1_text_review(s, out)
      [] n = "legal_review" -> agent2_legal_review(s, out)
      [] n = "revision_suggestions" -> agent3_revision_suggestions(s, out)
      [] n = "triage_agent" /\ w = "support" -> triage_agent(s, out)
      [] n = "triage_agent" /\ w = "linebot" -> linebot_triage_agent(s, out)
      [] n = "hr_agent" /\ w = "support" -> hr_agent(s, out)
      [] n = "it_agent" /\ w = "support" -> it_agent(s, out)
      [] n = "compliance_agent" /\ w = "support" -> compliance_agent(s, out)
      [] n = "hr_agent" /\ w = "linebot" -> linebot_hr_agent(s, out)
      [] n = "it_agent" /\ w = "linebot" -> linebot_it_agent(s, out)
      [] n = "compliance_agent" /\ w = "linebot" ->
            linebot_compliance_agent(s, out)
      [] n = "chinese_translator" -> chinese_translator_agent(s, out)
      [] n = "japanese_translator" -> japanese_translator_agent(s, out)
      [] n = "french_translator" -> french_translator_agent(s, out)
      [] n = "aggregator" -> aggregator(s)

\* faulty variant: the node function stores its result in the dict it received
NodeArgumentUpdated(w, n, s, update) == Merge(s, update)

\* the dict object node n received, as it is when the node function ends: the
\* node functions read state[...] and build a new dict, none assigns to state
NodeArgument(w, n, s, update) == s

\* faulty variant: the router is evaluated on the state the node received
RouterInputStale(s, update) == s

\* the state a conditional edge is evaluated on when its node has returned
\* update: the node's input with the update merged
RouterInput(s, update) == Merge(s, update)

\* the conditional edge of n, evaluated on the state with n's own update
Routes(w, n, s) ==
    IF n \notin Graph(w).conditional THEN {}
    ELSE IF w = "linebot" THEN {linebot_route_to_specialist(s)}
    ELSE {route_to_specialist(s)}

----------------------------------------------------------------------------
(* Callers of invoke *)

ReviewInitialState(content) ==
    [ contract_content |-> content,
      text_review |-> << >>,
      legal_review |-> << >>,
      revision_suggestions |-> << >> ]

\* faulty variant: the caller reuses the state of the request before, with
\* the new question
SupportInitialStateKept(user_question) ==
    IF DOMAIN state = SupportState
    THEN [state EXCEPT !["user_question"] = user_question]
    ELSE [ user_question |-> user_question,
           question_category |-> << >>,
           agent_response |-> << >> ]

SupportInitialState(user_question) ==
    [ user_question |-> user_question,
      question_category |-> << >>,
      agent_response |-> << >> ]

\* faulty variant: the caller passes only the input field
TranslationInitialStatePartial(content) ==
    "source_content" :> content

TranslationInitialState(content) ==
    [ source_content |-> content,
      chinese_translation |-> << >>,
      japanese_translation |-> << >>,
      french_translation |-> << >>,
      aggregated_result |-> << >> ]

InitialState(w, content) ==
    CASE w = "review" -> ReviewInitialState(content)
      [] w \in {"support", "linebot"} -> SupportInitialState(content)
      [] w = "translation" -> TranslationInitialState(content)

\* faulty variant: the caller returns the wrong field
process_support_request_category(final_state) ==
    <<final_state["question_category"]>>

\* what the caller of invoke returns from the final state
process_support_request(final_state) == <<final_state["agent_response"]>>

process_translation_request(final_state) ==
    <<final_state["aggregated_result"]>>

ReturnValue(w, final_state) ==
    CASE w = "review" -> << >>
      [] w \in {"support", "linebot"} -> process_support_request(final_state)
      [] w = "translation" -> process_translation_request(final_state)

----------------------------------------------------------------------------
(* The engine *)

\* faulty variant: a node function is handed the caller's initial state
TaskInputStale(n) == initial_state

\* faulty variant: a node function sees the dicts returned so far in the current step
TaskInputLive(n) ==
    [k \in DOMAIN state |->
        IF \E m \in DOMAIN writes : k \in DOMAIN writes[m]
        THEN writes[CHOOSE m \in DOMAIN writes : k \in DOMAIN writes[m]][k]
        ELSE state[k]]

\* the state handed to the node functions of the current step: the state as it
\* is at the beginning of the step; dicts returned meanwhile wait in writes
TaskInput(n) == state

\* faulty variant: only the dict of the node that returned last in the step is merged
MergeAllLastReturned(s, ws, names) ==
    LET last == events[Len(events)][2]
    IN  IF last \in DOMAIN ws THEN Merge(s, ws[last]) ELSE s

\* merge the dicts returned in a step, node by node
RECURSIVE MergeAll(_, _, _)
MergeAll(s, ws, names) ==
    IF names = << >>
    THEN s
    ELSE MergeAll(IF Head(names) \in DOMAIN ws
                  THEN Merge(s, ws[Head(names)])
                  ELSE s,
                  ws, Tail(names))

\* the nodes to schedule after a step in which the nodes of done returned
NextNodes(w, done, chosen) ==
    (UNION {Targets(w, n) : n \in done} \cup chosen) \ {END}

Running == {n \in DOMAIN tasks : tasks[n] = "running"}

\* the nodes of the events of one kind, in order
Project(kind) ==
    LET sel == SelectSeq(events, LAMBDA e : e[1] = kind)
    IN  [i \in 1..Len(sel) |-> sel[i][2]]

\* nodes in the order in which they began to execute
trace == Project("start")

\* nodes in the order in which they returned
order == Project("return")

\* the agent of lab3 has not been created
NoChat ==
    /\ checkpointer = EmptyMap
    /\ current_thread_id = "None"
    /\ uuids = 0
    /\ calls = EmptyMap

Init ==
    /\ pc = "idle"
    /\ wf = "none"
    /\ initial_state = EmptyMap
    /\ state = EmptyMap
    /\ tasks = EmptyMap
    /\ seen = EmptyMap
    /\ writes = EmptyMap
    /\ routed = {}
    /\ replies = EmptyMap
    /\ returned = EmptyMap
    /\ events = << >>
    /\ merged = {}
    /\ result = << >>
    /\ api_key \in BOOLEAN
    /\ event = << >>
    /\ http_response = "none"
    /\ sent = << >>
    /\ NoChat

\* app.invoke(initial_state): the input becomes the state and the targets of
\* START are scheduled
Invoke(w, content) ==
    /\ pc # "running"
    /\ Running = {}
    /\ pc' = "running"
    /\ wf' = w
    /\ initial_state' = InitialState(w, content)
    /\ state' = InitialState(w, content)
    /\ tasks' = [n \in NextNodes(w, {START}, {}) |-> "waiting"]
    /\ seen' = EmptyMap
    /\ writes' = EmptyMap
    /\ routed' = {}
    /\ replies' = EmptyMap
    /\ returned' = EmptyMap
    /\ events' = << >>
    /\ merged' = {}
    /\ result' = << >>
    /\ UNCHANGED chat_vars

\* a scheduled node function is called with the step's input
StartTask(n) ==
    /\ pc = "running"
    /\ n \in DOMAIN tasks
    /\ tasks[n] = "waiting"
    /\ tasks' = [tasks EXCEPT ![n] = "running"]
    /\ seen' = (n :> TaskInput(n)) @@ seen
    /\ events' = Append(events, <<"start", n>>)
    /\ UNCHANGED <<pc, wf, initial_state, state, writes, routed, replies,
                   returned, merged, result, bot_vars, chat_vars>>

\* a node of the step raises: invoke raises, and the nodes of the step that
\* have not begun are cancelled
Abort(n) ==
    [m \in DOMAIN tasks |->
        IF m = n THEN "failed"
        ELSE IF tasks[m] = "waiting" THEN "cancelled"
        ELSE tasks[m]]

\* the collaborator answers and the node function runs to its end: it returns
\* its dict (a conditional edge leaving the node is then evaluated on the
\* node's input with this dict merged), or it raises
FinishTask(n) ==
    /\ n \in DOMAIN tasks
    /\ tasks[n] = "running"
    /\ ~create_llm_raises(wf)
    /\ \E out \in Outputs(wf, n) :
         LET update == RunNode(wf, n, seen[n], out)
         IN  /\ replies' = IF n \in InvokeNodes(wf)
                           THEN (n :> out) @@ replies
                           ELSE replies
             /\ seen' = [seen EXCEPT ![n] = NodeArgument(wf, n, seen[n], update)]
             /\ IF Raises(update)
                THEN /\ pc' = IF pc = "cancelled" THEN pc ELSE "failed"
                     /\ tasks' = Abort(n)
                     /\ events' = Append(events, <<"raise", n>>)
                     /\ UNCHANGED <<returned, writes, routed>>
                ELSE /\ returned' = (n :> update) @@ returned
                     /\ tasks' = [tasks EXCEPT ![n] = "finished"]
                     /\ events' = Append(events, <<"return", n>>)
                     /\ pc' = pc
                     /\ IF pc = "running"
                        THEN /\ writes' = (n :> update) @@ writes
                             /\ routed' = routed \cup
                                    Routes(wf, n, RouterInput(seen[n], update))
                        ELSE UNCHANGED <<writes, routed>>
    /\ UNCHANGED <<wf, initial_state, state, merged, result, bot_vars,
                   chat_vars>>

\* faulty variant: the node function catches the error of its collaborator
\* call and returns an empty dict
FailTaskCaught(n) ==
    /\ n \in DOMAIN tasks
    /\ tasks[n] = "running"
    /\ n \in StreamNodes(wf) \cup InvokeNodes(wf)
    /\ pc' = pc
    /\ tasks' = [tasks EXCEPT ![n] = "finished"]
    /\ events' = Append(events, <<"raise", n>>)
    /\ returned' = (n :> EmptyMap) @@ returned
    /\ writes' = (n :> EmptyMap) @@ writes
    /\ UNCHANGED <<wf, initial_state, state, seen, routed, replies,
                   merged, result, bot_vars, chat_vars>>

\* the collaborator call of the node raises (in the webhook service also
\* create_llm, when OPENAI_API_KEY is missing)
FailTask(n) ==
    /\ n \in DOMAIN tasks
    /\ tasks[n] = "running"
    /\ n \in StreamNodes(wf) \cup InvokeNodes(wf)
    /\ pc' = IF pc = "cancelled" THEN pc ELSE "failed"
    /\ tasks' = Abort(n)
    /\ events' = Append(events, <<"raise", n>>)
    /\ UNCHANGED <<wf, initial_state, state, seen, writes, routed, replies,
                   returned, merged, result, bot_vars, chat_vars>>

\* all nodes of the step have returned: their dicts are merged into the state
\* and the next nodes are scheduled; with none left, invoke returns the state
\* and its caller returns
ApplyWrites ==
    /\ pc = "running"
    /\ DOMAIN tasks # {}
    /\ \A n \in DOMAIN tasks : tasks[n] = "finished"
    /\ LET next == NextNodes(wf, DOMAIN tasks, routed)
           merged_state == MergeAll(state, writes, Graph(wf).nodes)
       IN  /\ state' = merged_state
           /\ tasks' = [n \in next |-> "waiting"]
           /\ pc' = IF next = {} THEN "done" ELSE "running"
           /\ result' = IF next = {} THEN ReturnValue(wf, merged_state) ELSE result
    /\ merged' = merged \cup DOMAIN writes
    /\ writes' = EmptyMap
    /\ routed' = {}
    /\ UNCHANGED <<wf, initial_state, seen, replies, returned, events,
                   bot_vars, chat_vars>>

\* the handler of a message event has not sent its reply yet
ReplyPending == event # << >> /\ sent = << >>

\* main of a lab: load_environment raises when OPENAI_API_KEY is missing and
\* main returns before the workflow is created; otherwise the workflow is
\* created and invoked on the input
main(w, content) ==
    /\ api_key
    /\ pc # "cancelled"
    /\ ~ReplyPending
    /\ http_response # "pending"
    /\ Invoke(w, content)
    /\ event' = << >>
    /\ sent' = << >>
    /\ http_response' = "none"
    /\ UNCHANGED api_key

\* handle_text_message, first part: process_support_request(user_message)
\* creates the workflow and invokes it, whether or not OPENAI_API_KEY is set
handle_text_message(signature, reply_token, user_id, user_message) ==
    /\ Invoke("linebot", user_message)
    /\ event' = <<reply_token, user_id, signature>>
    /\ sent' = << >>
    /\ UNCHANGED api_key

\* faulty variant: the handler has no except clause, an error of the workflow
\* leaves the handler before the reply
reply_message_uncaught ==
    /\ ReplyPending
    /\ pc = "done"
    /\ Running = {}
    /\ sent' = <<[ reply_token |-> event[1], text |-> result[1] ]>>
    /\ UNCHANGED <<pc, wf, initial_state, state, tasks, seen, writes, routed,
                   replies, returned, events, merged, result, api_key, event,
                   http_response, chat_vars>>

\* handle_text_message, second part: the response is what
\* process_support_request returned, or the apology when it raised; it is
\* sent with the reply token of the event
reply_message ==
    /\ ReplyPending
    /\ pc \in {"done", "failed"}
    /\ Running = {}
    /\ sent' = <<[ reply_token |-> event[1],
                   text |-> IF pc = "done" THEN result[1] ELSE Apology ]>>
    /\ UNCHANGED <<pc, wf, initial_state, state, tasks, seen, writes, routed,
                   replies, returned, events, merged, result, api_key, event,
                   http_response, chat_vars>>

\* faulty variant: the events are handled whatever the signature is
webhook_unverified(signature, reply_token, user_id, user_message) ==
    /\ http_response # "pending"
    /\ handle_text_message(signature, reply_token, user_id, user_message)
    /\ http_response' = "pending"

\* webhook, first part: handler.handle(body_text, signature) checks the
\* signature before it looks at the events; InvalidSignatureError becomes
\* HTTPException(status_code=400), otherwise the message event of the body is
\* passed to handle_text_message
webhook(signature, reply_token, user_id, user_message) ==
    /\ http_response # "pending"
    /\ pc # "running"
    /\ Running = {}
    /\ IF InvalidSignatureError(signature)
       THEN /\ http_response' = "400"
            /\ event' = << >>
            /\ sent' = << >>
            /\ UNCHANGED <<pc, wf, initial_state, state, tasks, seen, writes,
                           routed, replies, returned, events, merged, result,
                           api_key, chat_vars>>
       ELSE /\ handle_text_message(signature, reply_token, user_id,
                                   user_message)
            /\ http_response' = "pending"

\* webhook, second part: handler.handle has returned, the endpoint returns "OK"
webhook_return ==
    /\ http_response = "pending"
    /\ event # << >>
    /\ sent # << >>
    /\ http_response' = "OK"
    /\ UNCHANGED <<pc, wf, initial_state, state, tasks, seen, writes, routed,
                   replies, returned, events, merged, result, api_key, event,
                   sent, chat_vars>>

Next ==
    \/ \E w \in Workflows \ {"linebot"}, content \in Contents : main(w, content)
    \/ \E g \in Signatures, t \in ReplyTokens, u \in UserIds, m \in Contents :
          webhook(g, t, u, m)
    \/ reply_message
    \/ webhook_return
    \/ \E n \in AllNodes : StartTask(n)
    \/ \E n \in AllNodes : FinishTask(n)
    \/ \E n \in AllNodes : FailTask(n)
    \/ ApplyWrites

Spec == Init /\ [][Next]_vars

\* faulty variant: the interrupt is swallowed and the run goes on
CancelIgnored ==
    /\ pc = "running"
    /\ wf # "linebot"
    /\ \A i \in 1..Len(events) : events[i][1] # "cancel"
    /\ events' = Append(events, <<"cancel", "main">>)
    /\ UNCHANGED <<pc, wf, initial_state, state, tasks, seen, writes, routed,
                   replies, returned, merged, result, bot_vars, chat_vars>>

\* the user interrupts a lab while invoke is in progress: KeyboardInterrupt
\* ends invoke in main; node functions that have not begun are cancelled,
\* those executing run on in their threads; main leaves its loop
Cancel ==
    /\ pc = "running"
    /\ wf # "linebot"
    /\ pc' = "cancelled"
    /\ tasks' = [m \in DOMAIN tasks |->
                    IF tasks[m] = "waiting" THEN "cancelled" ELSE tasks[m]]
    /\ events' = Append(events, <<"cancel", "main">>)
    /\ UNCHANGED <<wf, initial_state, state, seen, writes, routed, replies,
                   returned, merged, result, bot_vars, chat_vars>>

NextCancel == Next \/ Cancel

SpecCancel == Init /\ [][NextCancel]_vars

\* every step that is possible is eventually taken: a model call returns or
\* raises, the engine and the handler go on
SpecLive == Spec /\ WF_vars(Next)

----------------------------------------------------------------------------
(* The router as a function: route_to_specialist applied to any state *)

\* values of question_category the router is applied to
Categories == Replies \cup {Lower(Strip(r)) : r \in Replies}

InitRoute ==
    /\ pc = "route"
    /\ wf \in {"support", "linebot"}
    /\ \E q \in Contents, c \in Categories, a \in Answers :
          state = [ user_question |-> q,
                    question_category |-> c,
                    agent_response |-> a ]
    /\ initial_state = state
    /\ tasks = EmptyMap
    /\ seen = EmptyMap
    /\ writes = EmptyMap
    /\ routed = {}
    /\ replies = EmptyMap
    /\ returned = EmptyMap
    /\ events = << >>
    /\ merged = {}
    /\ result = << >>
    /\ api_key = TRUE
    /\ event = << >>
    /\ http_response = "none"
    /\ sent = << >>
    /\ NoChat

\* the conditional edge of triage_agent is evaluated on state
Route ==
    /\ pc = "route"
    /\ pc' = "routed"
    /\ routed' = Routes(wf, "triage_agent", state)
    /\ UNCHANGED <<wf, initial_state, state, tasks, seen, writes, replies,
                   returned, events, merged, result, bot_vars, chat_vars>>

NextRoute == Route

SpecRoute == InitRoute /\ [][NextRoute]_vars

----------------------------------------------------------------------------
(* Merge as a function: two returned dicts merged into any state *)

\* most fields a returned dict writes
MaxUpdateFields == 2

Schemas == {ContractReviewState, SupportState, TranslationState}

\* values of the fields of a state, and of a returned dict
StateValues == {<< >>, <<"x">>}
UpdateValues == {<< >>, <<"a">>}

\* the dicts a node may return under a schema
Updates(schema) ==
    UNION {[fields -> UpdateValues] :
              fields \in {f \in SUBSET schema : Cardinality(f) <= MaxUpdateFields}}

InitMerge ==
    /\ pc = "merge"
    /\ wf = "none"
    /\ \E schema \in Schemas :
          /\ initial_state \in [schema -> StateValues]
          /\ \E u1 \in Updates(schema), u2 \in Updates(schema) :
                writes = [u \in {"u1", "u2"} |-> IF u = "u1" THEN u1 ELSE u2]
    /\ state = initial_state
    /\ tasks = EmptyMap
    /\ seen = EmptyMap
    /\ routed = {}
    /\ replies = EmptyMap
    /\ returned = EmptyMap
    /\ events = << >>
    /\ merged = {}
    /\ result = << >>
    /\ api_key = TRUE
    /\ event = << >>
    /\ http_response = "none"
    /\ sent = << >>
    /\ NoChat

\* the two dicts are merged into the state one after the other, in both
\* orders, and each alone
MergeBoth ==
    /\ pc = "merge"
    /\ pc' = "merged"
    /\ returned' =
          [o \in {"u1", "u2", "u1u2", "u2u1"} |->
              CASE o = "u1" -> Merge(state, writes["u1"])
                [] o = "u2" -> Merge(state, writes["u2"])
                [] o = "u1u2" -> Merge(Merge(state, writes["u1"]), writes["u2"])
                [] o = "u2u1" -> Merge(Merge(state, writes["u2"]), writes["u1"])]
    /\ UNCHANGED <<wf, initial_state, state, tasks, seen, writes, routed,
                   replies, events, merged, result, bot_vars, chat_vars>>

NextMerge == MergeBoth

SpecMerge == InitMerge /\ [][NextMerge]_vars

----------------------------------------------------------------------------
(* lab3: the agent with memory. The checkpointer keeps, per thread_id, the  *)
(* messages of the thread; a stream_chat call loads them, appends the user  *)
(* message, and runs the model (and the tool, when the model asks for it),  *)
(* saving a checkpoint after the input and after each step.                 *)

\* stream_chat calls in a behaviour
MaxTurns == 3

\* thread ids new_conversation generates in a behaviour
MaxConversations == 2

\* tool calls the model asks for in one turn
MaxToolCalls == 1

\* stream_chat calls that may be in progress at the same time when the
\* caller does not wait for a call to return
MaxOverlap == 2

\* the text a caller passes as user_message
UserMessages == {"m1"}

\* a thread id the caller makes up
ThreadIds == {"A"}

\* str(uuid.uuid4()): the i-th generated thread id, different from all others
Uuid(i) ==
    CASE i = 1 -> "u1"
      [] i = 2 -> "u2"
      [] i = 3 -> "u3"
      [] OTHER -> "u4"

\* what a caller may pass as thread_id
ThreadArgs == {"None", ""} \cup ThreadIds \cup {Uuid(i) : i \in 1..uuids}

\* the truth value Python gives a thread id: None and "" are false
bool(v) == v \notin {"None", ""}

\* a message of a thread; call is the stream_chat call that added it
Message(role, content, c) == [role |-> role, content |-> content, call |-> c]

engine_vars == <<pc, wf, initial_state, state, tasks, seen, writes, routed,
                 replies, returned, events, merged, result, bot_vars>>

\* faulty variant: the agent is created without the checkpointer, a thread
\* has no saved messages
SavedNothing(tid) == << >>

\* the messages of the latest checkpoint of a thread
Saved(tid) == IF tid \in DOMAIN checkpointer THEN checkpointer[tid] ELSE << >>

\* faulty variant: the saver keeps one list of messages for all threads
put_shared(tid, msgs) == [t \in DOMAIN checkpointer \cup {tid} |-> msgs]

\* InMemorySaver.put under config {"configurable": {"thread_id": tid}}: the
\* checkpoint of thread tid is replaced, those of other threads are kept
put(tid, msgs) == (tid :> msgs) @@ checkpointer

\* the calls that have not returned or raised
InProgress == {c \in DOMAIN calls : calls[c].pc \notin {"done", "failed"}}

\* get_conversation_history(thread_id): the messages saved for thread_id, or
\* for the current thread when thread_id is None; [] when there is neither
get_conversation_history(thread_id) ==
    LET tid == IF bool(thread_id) THEN thread_id ELSE current_thread_id
    IN  IF ~bool(tid) THEN << >> ELSE Saved(tid)

\* faulty variant: new_conversation starts over with an empty checkpointer
new_conversation_forgetting ==
    /\ uuids < MaxConversations
    /\ uuids' = uuids + 1
    /\ current_thread_id' = Uuid(uuids + 1)
    /\ checkpointer' = EmptyMap
    /\ UNCHANGED <<calls, engine_vars>>

\* new_conversation(): a fresh thread id becomes the current one
new_conversation ==
    /\ uuids < MaxConversations
    /\ uuids' = uuids + 1
    /\ current_thread_id' = Uuid(uuids + 1)
    /\ UNCHANGED <<checkpointer, calls, engine_vars>>

\* faulty variant: without an argument a new thread id is taken every time
config_thread_id_renewed(thread_id) ==
    IF bool(thread_id) THEN thread_id ELSE Uuid(uuids + 1)

\* the thread id stream_chat puts into config: thread_id when it is given
\* and not empty, else the current one, else the one new_conversation makes
config_thread_id(thread_id) ==
    IF bool(thread_id) THEN thread_id
    ELSE IF ~bool(current_thread_id) THEN Uuid(uuids + 1)
    ELSE current_thread_id

\* stream_chat(user_message, thread_id), up to the point where the agent has
\* loaded the checkpoint of the thread: the thread is thread_id when given,
\* else the current one, else a new one
stream_chat(user_message, thread_id, most) ==
    /\ Cardinality(DOMAIN calls) < MaxTurns
    /\ Cardinality(InProgress) < most
    /\ LET generate == ~bool(thread_id) /\ ~bool(current_thread_id)
           tid == config_thread_id(thread_id)
           c == Cardinality(DOMAIN calls) + 1
       IN  /\ generate => uuids < MaxConversations
           /\ uuids' = IF generate THEN uuids + 1 ELSE uuids
           /\ current_thread_id' = tid
           /\ calls' = calls @@
                 (c :> [ thread |-> tid,
                         thread_id |-> thread_id,
                         user |-> user_message,
                         pc |-> "input",
                         loaded |-> Saved(tid),
                         messages |-> Saved(tid),
                         input |-> << >>,
                         tools |-> 0 ])
    /\ UNCHANGED <<checkpointer, engine_vars>>

\* the input {"messages": [user message]} is appended to the loaded messages
\* and a checkpoint is saved
ApplyInput(c) ==
    /\ c \in DOMAIN calls
    /\ calls[c].pc = "input"
    /\ LET msgs == Append(calls[c].messages,
                          Message("user", calls[c].user, c))
       IN  /\ calls' = [calls EXCEPT ![c].messages = msgs, ![c].pc = "model"]
           /\ checkpointer' = put(calls[c].thread, msgs)
    /\ UNCHANGED <<current_thread_id, uuids, engine_vars>>

\* the model answers the messages of the call, with a reply or with a tool
\* call; the answer is appended and a checkpoint is saved
ModelReturns(c, tool_call) ==
    /\ c \in DOMAIN calls
    /\ calls[c].pc = "model"
    /\ tool_call => calls[c].tools < MaxToolCalls
    /\ LET msgs == Append(calls[c].messages,
                          Message("ai",
                                  IF tool_call THEN "tool_call" ELSE "reply",
                                  c))
       IN  /\ calls' = [calls EXCEPT
                          ![c].messages = msgs,
                          ![c].input = calls[c].messages,
                          ![c].pc = IF tool_call THEN "tools" ELSE "done",
                          ![c].tools = IF tool_call THEN @ + 1 ELSE @]
           /\ checkpointer' = put(calls[c].thread, msgs)
    /\ UNCHANGED <<current_thread_id, uuids, engine_vars>>

\* the model call raises: agent.stream raises and so does stream_chat, which
\* has no try/except
ModelRaises(c) ==
    /\ c \in DOMAIN calls
    /\ calls[c].pc = "model"
    /\ calls' = [calls EXCEPT ![c].input = calls[c].messages,
                              ![c].pc = "failed"]
    /\ UNCHANGED <<checkpointer, current_thread_id, uuids, engine_vars>>

\* generate_marketing_copy returns its text: the tool message is appended
\* and a checkpoint is saved; the model is called again
ToolReturns(c) ==
    /\ c \in DOMAIN calls
    /\ calls[c].pc = "tools"
    /\ LET msgs == Append(calls[c].messages, Message("tool", "copy", c))
       IN  /\ calls' = [calls EXCEPT ![c].messages = msgs, ![c].pc = "model"]
           /\ checkpointer' = put(calls[c].thread, msgs)
    /\ UNCHANGED <<current_thread_id, uuids, engine_vars>>

InitChat ==
    /\ pc = "idle"
    /\ wf = "none"
    /\ initial_state = EmptyMap
    /\ state = EmptyMap
    /\ tasks = EmptyMap
    /\ seen = EmptyMap
    /\ writes = EmptyMap
    /\ routed = {}
    /\ replies = EmptyMap
    /\ returned = EmptyMap
    /\ events = << >>
    /\ merged = {}
    /\ result = << >>
    /\ api_key = TRUE
    /\ event = << >>
    /\ http_response = "none"
    /\ sent = << >>
    /\ NoChat

\* the caller waits for a call of stream_chat to return before the next, as
\* main does
NextChat ==
    \/ InProgress = {} /\ new_conversation
    \/ \E m \in UserMessages, t \in ThreadArgs : stream_chat(m, t, 1)
    \/ \E c \in DOMAIN calls : ApplyInput(c)
    \/ \E c \in DOMAIN calls, tool_call \in BOOLEAN : ModelReturns(c, tool_call)
    \/ \E c \in DOMAIN calls : ModelRaises(c)
    \/ \E c \in DOMAIN calls : ToolReturns(c)

SpecChat == InitChat /\ [][NextChat]_vars

\* callers that do not wait: calls of stream_chat on one agent overlap
NextChatOverlap ==
    \/ new_conversation
    \/ \E m \in UserMessages, t \in ThreadArgs : stream_chat(m, t, MaxOverlap)
    \/ \E c \in DOMAIN calls : ApplyInput(c)
    \/ \E c \in DOMAIN calls, tool_call \in BOOLEAN : ModelReturns(c, tool_call)
    \/ \E c \in DOMAIN calls : ModelRaises(c)
    \/ \E c \in DOMAIN calls : ToolReturns(c)

SpecChatOverlap == InitChat /\ [][NextChatOverlap]_vars

----------------------------------------------------------------------------
(* mcpserver: the lookup tools. Texts of the tables are abbreviated: a     *)
(* product key is the lower-case short name, "c" stands for the word that  *)
(* the first product's name and the second product's key have in common.   *)

\* str.upper() on one character
UpperChar(c) ==
    CASE c = "o" -> "O"
      [] c = "x" -> "X"
      [] OTHER -> c

\* str.upper()
Upper(s) == [i \in 1..Len(s) |-> UpperChar(s[i])]

None == <<"N", "o", "n", "e">>

\* the product table, in the order of the dict literal
PRODUCTS_DATABASE ==
    << [ key |-> <<"h", "p">>,
         name |-> <<"H", "P", " ", "c", "k">>,
         category |-> <<"g">>,
         stock_status |-> <<"s">>,
         stock_quantity |-> 156,
         features |-> << <<"H", "i">>, <<"R", "p">> >>,
         warranty |-> <<"2", "y">> ],
       [ key |-> <<"c", "w">>,
         name |-> <<"T", "I", " ", "c", "w">>,
         category |-> <<"f">>,
         stock_status |-> <<"s">>,
         stock_quantity |-> 89,
         features |-> << <<"R", "T">>, <<"5", "m">> >>,
         warranty |-> <<"1", "y">> ],
       [ key |-> <<"e">>,
         name |-> <<"C", "R", " ", "e">>,
         category |-> <<"u">>,
         stock_status |-> <<"s">>,
         stock_quantity |-> 234,
         features |-> << <<"I", "C">> >>,
         warranty |-> <<"1", "y">> ],
       [ key |-> <<"n">>,
         name |-> <<"T", "H", " ", "n">>,
         category |-> <<"b">>,
         stock_status |-> <<"v">>,
         stock_quantity |-> 0,
         features |-> << <<"i", "7">> >>,
         warranty |-> <<"2", "y">> ] >>

\* the order table, in the order of the dict literal: <<key, record>>; a
\* record has the fields its dict literal has
ORDERS_DATABASE ==
    << << <<"O", "1">>,
          [ order_id |-> <<"O", "1">>, status |-> <<"d">>,
            status_code |-> "delivered", product |-> <<"H", "P", " ", "c", "k">>,
            quantity |-> <<"1">>, total_amount |-> <<"8">>,
            order_date |-> <<"2", "0">>, shipping_date |-> <<"2", "1">>,
            delivery_date |-> <<"2", "3">>, shipping_address |-> <<"t">>,
            tracking_number |-> <<"T", "1">> ] >>,
       << <<"O", "2">>,
          [ order_id |-> <<"O", "2">>, status |-> <<"m">>,
            status_code |-> "shipping", product |-> <<"T", "I", " ", "c", "w">>,
            quantity |-> <<"2">>, total_amount |-> <<"9">>,
            order_date |-> <<"2", "7">>, shipping_date |-> <<"2", "8">>,
            delivery_date |-> None, estimated_delivery |-> <<"3", "0">>,
            shipping_address |-> <<"b">>, tracking_number |-> <<"T", "9">> ] >>,
       << <<"O", "3">>,
          [ order_id |-> <<"O", "3">>, status |-> <<"p">>,
            status_code |-> "processing", product |-> <<"C", "R", " ", "e">>,
            quantity |-> <<"1">>, total_amount |-> <<"3">>,
            order_date |-> <<"2", "9">>, shipping_date |-> None,
            delivery_date |-> None, estimated_shipping |-> <<"3", "0">>,
            shipping_address |-> <<"c">>, tracking_number |-> None ] >>,
       << <<"O", "4">>,
          [ order_id |-> <<"O", "4">>, status |-> <<"x">>,
            status_code |-> "cancelled", product |-> <<"T", "H", " ", "n">>,
            quantity |-> <<"1">>, total_amount |-> <<"4">>,
            order_date |-> <<"1", "5">>, cancel_date |-> <<"1", "6">>,
            cancel_reason |-> <<"r">>, refund_status |-> <<"f">> ] >> >>

\* sep.join(texts)
RECURSIVE Join(_, _)
Join(texts, sep) ==
    IF texts = << >> THEN << >>
    ELSE IF Len(texts) = 1 THEN texts[1]
    ELSE texts[1] \o sep \o Join(Tail(texts), sep)

\* what a tool hands back when it returns text
Return(text) == "text" :> text

\* the text get_product_info returns when no product matches
ProductNotFound(product_name) ==
    <<"?">> \o product_name \o <<":", "\n">>
        \o Join([i \in 1..Len(PRODUCTS_DATABASE) |->
                    <<"-">> \o PRODUCTS_DATABASE[i].name], <<"\n">>)

\* faulty variant: only the key of the product is compared
MatchesKeyOnly(search_term, p) == Contains(Lower(p.key), search_term)

\* search_term is contained in the key, the name or a feature of product p
Matches(search_term, p) ==
    \/ Contains(Lower(p.key), search_term)
    \/ Contains(Lower(p.name), search_term)
    \/ \E j \in 1..Len(p.features) : Contains(Lower(p.features[j]), search_term)

\* the formatted information of product p, stripped
ProductInfo(p) ==
    Strip(<<"\n", "#", "\n">> \o p.name \o <<"\n">> \o p.category
          \o <<"\n">> \o p.stock_status \o <<"\n">>
          \o (IF p.stock_quantity > 0 THEN <<"q">> ELSE << >>)
          \o <<"\n">>
          \o Join([j \in 1..Len(p.features) |-> <<"-">> \o p.features[j]],
                  <<"\n">>)
          \o <<"\n">> \o p.warranty \o <<"\n">>)

\* faulty variant: a product name that matches nothing is a lookup error
get_product_info_strict(product_name) ==
    LET search_term == Strip(Lower(product_name))
        hits == {i \in 1..Len(PRODUCTS_DATABASE) :
                    Matches(search_term, PRODUCTS_DATABASE[i])}
    IN  IF hits = {}
        THEN Raise(KeyError)
        ELSE Return(ProductInfo(PRODUCTS_DATABASE[
                 CHOOSE i \in hits : \A j \in hits : i <= j]))

\* get_product_info: the first product, in table order, that the lower-cased
\* and stripped name matches, or the not-found text
get_product_info(product_name) ==
    LET search_term == Strip(Lower(product_name))
        hits == {i \in 1..Len(PRODUCTS_DATABASE) :
                    Matches(search_term, PRODUCTS_DATABASE[i])}
    IN  IF hits = {}
        THEN Return(ProductNotFound(product_name))
        ELSE Return(ProductInfo(PRODUCTS_DATABASE[
                 CHOOSE i \in hits : \A j \in hits : i <= j]))

\* the text get_order_status returns when the order is not in the table
OrderNotFound(order_id) ==
    <<"?">> \o order_id \o <<":", "\n">>
        \o Join([i \in 1..3 |-> ORDERS_DATABASE[i][1]], <<",", " ">>)

\* faulty variant: the shipping fields are read whatever the status is
FieldsReadShipping(rec) ==
    {"order_id", "status_code", "status", "product", "quantity",
     "total_amount", "order_date", "shipping_date", "tracking_number",
     "shipping_address"}

\* the fields the f-strings of get_order_status read for an order
FieldsRead(rec) ==
    {"order_id", "status_code", "status", "product", "quantity",
     "total_amount", "order_date"}
    \cup
    (CASE rec.status_code = "delivered" ->
            {"shipping_date", "delivery_date", "tracking_number",
             "shipping_address"}
       [] rec.status_code = "shipping" ->
            {"shipping_date", "estimated_delivery", "tracking_number",
             "shipping_address"}
       [] rec.status_code = "processing" ->
            {"estimated_shipping", "shipping_address"}
       [] rec.status_code = "cancelled" ->
            {"cancel_date", "cancel_reason", "refund_status"}
       [] OTHER -> {})

\* the formatted status of an order, stripped
OrderInfo(rec) ==
    LET head == <<"\n", "#", "\n">> \o rec.order_id \o <<"\n">>
                    \o rec.status \o <<"\n">> \o rec.product \o <<"\n">>
                    \o rec.quantity \o <<"\n">> \o rec.total_amount
                    \o <<"\n">> \o rec.order_date \o <<"\n">>
        rest ==
            CASE rec.status_code = "delivered" ->
                    rec.shipping_date \o <<"\n">> \o rec.delivery_date
                        \o <<"\n">> \o rec.tracking_number \o <<"\n">>
                        \o rec.shipping_address \o <<"\n">>
              [] rec.status_code = "shipping" ->
                    rec.shipping_date \o <<"\n">> \o rec.estimated_delivery
                        \o <<"\n">> \o rec.tracking_number \o <<"\n">>
                        \o rec.shipping_address \o <<"\n">>
              [] rec.status_code = "processing" ->
                    rec.estimated_shipping \o <<"\n">>
                        \o rec.shipping_address \o <<"\n">>
              [] rec.status_code = "cancelled" ->
                    rec.cancel_date \o <<"\n">> \o rec.cancel_reason
                        \o <<"\n">> \o rec.refund_status \o <<"\n">>
              [] OTHER -> << >>
    IN  Strip(head \o rest)

\* faulty variant: the order is looked up by the id as it was given
get_order_status_exact(order_id) ==
    LET hits == {i \in 1..Len(ORDERS_DATABASE) :
                    ORDERS_DATABASE[i][1] = order_id}
    IN  IF hits = {}
        THEN Return(OrderNotFound(order_id))
        ELSE Return(OrderInfo(ORDERS_DATABASE[CHOOSE i \in hits : TRUE][2]))

\* get_order_status: the order whose key is the upper-cased and stripped id,
\* or the not-found text; reading a field the record lacks raises KeyError
get_order_status(order_id) ==
    LET order_id_upper == Strip(Upper(order_id))
        hits == {i \in 1..Len(ORDERS_DATABASE) :
                    ORDERS_DATABASE[i][1] = order_id_upper}
    IN  IF hits = {}
        THEN Return(OrderNotFound(order_id))
        ELSE LET rec == ORDERS_DATABASE[CHOOSE i \in hits : TRUE][2]
             IN  IF FieldsRead(rec) \subseteq DOMAIN rec
                 THEN Return(OrderInfo(rec))
                 ELSE Raise(KeyError)

\* whitespace a caller may leave around an argument
Pads == {<< >>, <<" ">>}
Tails == {<< >>, <<" ">>, <<"\n">>}

\* product names and order ids the tools are called with
ProductNames ==
    { p \o b \o t :
        p \in Pads, t \in Tails,
        b \in { << >>, <<"c">>, <<"C">>, <<"h", "p">>, <<"H", "P">>,
                <<"h", "p", " ", "c", "k">>, <<"c", "w">>, <<"r", "t">>,
                <<"R", "T">>, <<"e">>, <<"n">>, <<"i", "7">>,
                <<"t", "h", " ", "n">>, <<"z">>, <<"h", "z">>,
                <<"c", " ", "w">>, <<"k", "c">> } }

OrderIds ==
    { p \o b \o t :
        p \in Pads, t \in Tails,
        b \in { <<"O", "1">>, <<"O", "2">>, <<"O", "3">>, <<"O", "4">>,
                <<"o", "1">>, <<"o", "2">>, <<"o", "3">>, <<"o", "4">>,
                <<"O", "5">>, <<"O">>, <<"1">>, << >>, <<"O", " ", "1">> } }

InitTools ==
    /\ pc = "serving"
    /\ wf = "none"
    /\ initial_state = EmptyMap
    /\ state = EmptyMap
    /\ tasks = EmptyMap
    /\ seen = EmptyMap
    /\ writes = EmptyMap
    /\ routed = {}
    /\ replies = EmptyMap
    /\ returned = EmptyMap
    /\ events = << >>
    /\ merged = {}
    /\ result = << >>
    /\ api_key = TRUE
    /\ event = << >>
    /\ http_response = "none"
    /\ sent = << >>
    /\ NoChat

\* the server runs tool on argument: seen holds the call, returned what the
\* tool handed back, result the text when it returned one
CallTool(tool, argument, outcome) ==
    /\ pc \in {"serving", "returned", "raised"}
    /\ pc' = IF Raises(outcome) THEN "raised" ELSE "returned"
    /\ seen' = (tool :> argument)
    /\ returned' = (tool :> outcome)
    /\ result' = IF Raises(outcome) THEN << >> ELSE <<outcome["text"]>>
    /\ UNCHANGED <<wf, initial_state, state, tasks, writes, routed, replies,
                   events, merged, bot_vars, chat_vars>>

NextTools ==
    \/ \E n \in ProductNames :
          CallTool("get_product_info", n, get_product_info(n))
    \/ \E i \in OrderIds :
          CallTool("get_order_status", i, get_order_status(i))

SpecTools == InitTools /\ [][NextTools]_vars

----------------------------------------------------------------------------
(* A streaming node as a function of the fragments its stream yields *)

\* most fragments a stream yields here
MaxFragments == 3

\* contents of a fragment; << >> is a fragment without content
FragmentContents == {<< >>, <<"a">>, <<"b">>}

Fragments == UNION {[1..n -> FragmentContents] : n \in 0..MaxFragments}

InitStream ==
    /\ pc = "streaming"
    /\ wf \in {"review", "support", "translation"}
    /\ \E n \in StreamNodes(wf), content \in Contents, stream \in Fragments :
          /\ tasks = (n :> "running")
          /\ initial_state = InitialState(wf, content)
          /\ seen = (n :> InitialState(wf, content))
          /\ replies = (n :> stream)
    /\ state = initial_state
    /\ writes = EmptyMap
    /\ routed = {}
    /\ returned = EmptyMap
    /\ events = << >>
    /\ merged = {}
    /\ result = << >>
    /\ api_key = TRUE
    /\ event = << >>
    /\ http_response = "none"
    /\ sent = << >>
    /\ NoChat

\* the node function runs its loop over the stream and returns its dict
ConsumeAll(n) ==
    /\ pc = "streaming"
    /\ n \in DOMAIN tasks
    /\ pc' = "returned"
    /\ tasks' = (n :> "finished")
    /\ returned' = (n :> RunNode(wf, n, seen[n], replies[n]))
    /\ UNCHANGED <<wf, initial_state, state, seen, writes, routed, replies,
                   events, merged, result, bot_vars, chat_vars>>

NextStream == \E n \in AllNodes : ConsumeAll(n)

SpecStream == InitStream /\ [][NextStream]_vars

----------------------------------------------------------------------------
(* Properties *)

IsPrefix(a, b) == Len(a) <= Len(b) /\ SubSeq(b, 1, Len(a)) = a

Occurrences(seq, x) == Cardinality({i \in 1..Len(seq) : seq[i] = x})

ReviewOrder == <<"text_review", "legal_review", "revision_suggestions">>

SupportRun == wf \in {"support", "linebot"} /\ pc \in {"running", "done", "failed"}

Specialists == {"hr_agent", "it_agent", "compliance_agent"}

Translators == {"chinese_translator", "japanese_translator", "french_translator"}

TranslationField(t) ==
    CASE t = "chinese_translator" -> "chinese_translation"
      [] t = "japanese_translator" -> "japanese_translation"
      [] t = "french_translator" -> "french_translation"

\* C1: in the contract-review workflow the nodes begin in the order text_review,
\* legal_review, revision_suggestions, each at most once (and each exactly once
\* in a run that reaches END); at most one node is executing at any time; a
\* node begins only after the dict returned by the preceding node has been
\* merged, and receives every value of that dict.
C1_SequentialReview ==
    wf = "review" =>
        /\ IsPrefix(trace, ReviewOrder)
        /\ Cardinality(Running) <= 1
        /\ \A i \in 2..Len(trace) :
              /\ trace[i - 1] \in merged
              /\ \A k \in DOMAIN returned[trace[i - 1]] :
                    seen[trace[i]][k] = returned[trace[i - 1]][k]
        /\ (pc = "done" => trace = ReviewOrder)

C1_Witness ==
    /\ wf = "review"
    /\ pc = "done"
    /\ trace = ReviewOrder
    /\ order = ReviewOrder

\* C2: in the contract-review workflow legal_review receives as text_review
\* exactly the text that text_review returned; revision_suggestions receives as
\* text_review and legal_review exactly the texts the first two nodes returned;
\* the final state holds the three returned texts and the original
\* contract_content.
C2_ContributionsVisible ==
    wf = "review" =>
        /\ "legal_review" \in DOMAIN seen =>
              seen["legal_review"]["text_review"]
                  = returned["text_review"]["text_review"]
        /\ "revision_suggestions" \in DOMAIN seen =>
              /\ seen["revision_suggestions"]["text_review"]
                    = returned["text_review"]["text_review"]
              /\ seen["revision_suggestions"]["legal_review"]
                    = returned["legal_review"]["legal_review"]
        /\ pc = "done" =>
              state = [ contract_content |-> initial_state["contract_content"],
                        text_review |-> returned["text_review"]["text_review"],
                        legal_review |-> returned["legal_review"]["legal_review"],
                        revision_suggestions |->
                            returned["revision_suggestions"]["revision_suggestions"] ]

C2_Witness ==
    /\ wf = "review"
    /\ pc = "done"
    /\ state["contract_content"] = <<"y", "z">>
    /\ state["text_review"] = <<"a">>
    /\ state["legal_review"] = <<"a", "a">>
    /\ state["revision_suggestions"] = <<"a">>

\* C3: whenever returned dicts are merged into the state, every key of a dict
\* gets the dict's value, every other key keeps its value, and the set of keys
\* is unchanged.
C3_MergeFrame ==
    [][merged' \ merged # {} =>
        /\ DOMAIN state' = DOMAIN state
        /\ \A n \in DOMAIN writes : \A k \in DOMAIN writes[n] :
              state'[k] = writes[n][k]
        /\ \A k \in DOMAIN state :
              (\A n \in DOMAIN writes : k \notin DOMAIN writes[n]) =>
                  state'[k] = state[k]]_vars

C3_Witness ==
    /\ wf = "review"
    /\ merged = {"text_review", "legal_review"}
    /\ state["contract_content"] = <<"x">>
    /\ state["text_review"] = <<"a", "a">>
    /\ state["legal_review"] = <<"a">>
    /\ state["revision_suggestions"] = << >>

\* C4: in the support workflow, when triage classifies the question as "hr",
\* the nodes that execute are triage_agent then hr_agent, the run ends when
\* hr_agent's dict is merged, and it_agent and compliance_agent are never
\* scheduled.
C4_HRPath ==
    ( /\ SupportRun
      /\ "triage_agent" \in DOMAIN returned
      /\ returned["triage_agent"]["question_category"] = HR ) =>
        /\ IsPrefix(trace, <<"triage_agent", "hr_agent">>)
        /\ DOMAIN tasks \cap {"it_agent", "compliance_agent"} = {}
        /\ ("hr_agent" \in merged => pc = "done")
        /\ (pc = "done" => trace = <<"triage_agent", "hr_agent">>)

C4_Witness ==
    /\ wf = "support"
    /\ pc = "done"
    /\ replies["triage_agent"] = <<" ", "H", "R", "\n">>
    /\ trace = <<"triage_agent", "hr_agent">>

\* C5: in every run of the support workflow (lab5 and linebot) that succeeds,
\* triage_agent has run exactly once, then exactly one specialist exactly once,
\* and the caller returns the agent_response that specialist returned.
C5_OneSpecialist ==
    (SupportRun /\ pc = "done") =>
        /\ Len(trace) = 2
        /\ trace[1] = "triage_agent"
        /\ trace[2] \in Specialists
        /\ order = trace
        /\ result = <<returned[trace[2]]["agent_response"]>>

C5_Witness ==
    /\ wf = "linebot"
    /\ pc = "done"
    /\ trace = <<"triage_agent", "compliance_agent">>
    /\ result = << <<"a", "a">> >>

\* C6: route_to_specialist returns, for every value of question_category,
\* exactly one of hr_agent, it_agent, compliance_agent: hr_agent for "hr",
\* it_agent for "it", compliance_agent for every other value.
C6_RouterTotal ==
    pc = "routed" =>
        LET category == state["question_category"]
        IN  /\ routed \subseteq Specialists
            /\ Cardinality(routed) = 1
            /\ (category = HR => routed = {"hr_agent"})
            /\ (category = IT => routed = {"it_agent"})
            /\ (category \notin {HR, IT} => routed = {"compliance_agent"})

C6_Witness ==
    /\ pc = "routed"
    /\ state["question_category"] = << >>
    /\ routed = {"compliance_agent"}

\* C7: when the classifier's reply, trimmed and lower-cased, is not hr, it or
\* compliance, triage_agent does not raise: it returns the category "it", the
\* only specialist that executes is it_agent, and the run can fail only in
\* it_agent.
Unrecognized(content) == Lower(Strip(content)) \notin {HR, IT, COMPLIANCE}

C7_FallbackToIT ==
    ( /\ SupportRun
      /\ "triage_agent" \in DOMAIN replies
      /\ Unrecognized(replies["triage_agent"]) ) =>
        /\ "triage_agent" \in DOMAIN returned
        /\ returned["triage_agent"]["question_category"] = IT
        /\ IsPrefix(trace, <<"triage_agent", "it_agent">>)
        /\ (pc = "failed" => Len(trace) = 2 /\ tasks["it_agent"] = "failed")
        /\ (pc = "done" =>
              /\ trace = <<"triage_agent", "it_agent">>
              /\ state["question_category"] = IT)

C7_Witness ==
    /\ wf = "support"
    /\ pc = "done"
    /\ replies["triage_agent"] = <<"h", "r", " ", "i", "t">>
    /\ trace = <<"triage_agent", "it_agent">>
    /\ result = << <<"a">> >>

\* C8: in the translation workflow the aggregator executes at most once (exactly
\* once in a run that reaches END), it begins only after the dicts of the three
\* translators have been merged, and it receives in the three translation
\* fields the texts the translators returned.
C8_JoinAfterAll ==
    wf = "translation" =>
        /\ Occurrences(trace, "aggregator") <= 1
        /\ "aggregator" \in DOMAIN seen =>
              /\ Translators \subseteq merged
              /\ \A t \in Translators :
                    seen["aggregator"][TranslationField(t)]
                        = returned[t][TranslationField(t)]
        /\ (pc = "done" => Occurrences(trace, "aggregator") = 1)

C8_Witness ==
    /\ wf = "translation"
    /\ "aggregator" \in DOMAIN seen
    /\ SubSeq(order, 1, 3)
          = <<"french_translator", "japanese_translator", "chinese_translator">>
    /\ seen["aggregator"]["chinese_translation"] = <<"a">>
    /\ seen["aggregator"]["japanese_translation"] = <<"a", "a">>
    /\ seen["aggregator"]["french_translation"] = <<"a">>

\* C9: every translator receives the state as it was passed to invoke, also
\* when it begins after another translator has returned.
C9_BranchIsolation ==
    wf = "translation" =>
        \A t \in Translators \cap DOMAIN seen : seen[t] = initial_state

C9_Witness ==
    /\ wf = "translation"
    /\ Len(events) >= 3
    /\ events[2] = <<"return", "chinese_translator">>
    /\ events[3] = <<"start", "japanese_translator">>
    /\ returned["chinese_translator"]["chinese_translation"] = <<"a">>
    /\ "chinese_translator" \in DOMAIN writes

\* C10: the final state of a translation run is determined by the input and the
\* texts the three translators returned: it does not depend on the order in
\* which the branches began or returned.
C10_FinalState ==
    LET translations ==
            [ source_content |-> initial_state["source_content"],
              chinese_translation |->
                  returned["chinese_translator"]["chinese_translation"],
              japanese_translation |->
                  returned["japanese_translator"]["japanese_translation"],
              french_translation |->
                  returned["french_translator"]["french_translation"],
              aggregated_result |-> << >> ]
    IN  (wf = "translation" /\ pc = "done") =>
            state = [translations EXCEPT !["aggregated_result"] =
                        aggregator(translations)["aggregated_result"]]

C10_Witness ==
    /\ wf = "translation"
    /\ pc = "done"
    /\ trace = <<"french_translator", "chinese_translator",
                 "japanese_translator", "aggregator">>
    /\ order = <<"japanese_translator", "french_translator",
                 "chinese_translator", "aggregator">>
    /\ state["chinese_translation"] = <<"a">>
    /\ state["french_translation"] = <<"a", "a">>


\* C11: the value process_translation_request returns for a run that reached
\* END is the aggregated_result of the final state, and it contains the
\* source_content passed in and each of the three translations the translators
\* returned in that run.
C11_AggregateContainsAll ==
    (wf = "translation" /\ pc = "done") =>
        /\ result = <<state["aggregated_result"]>>
        /\ Contains(result[1], initial_state["source_content"])
        /\ \A t \in Translators :
              Contains(result[1], returned[t][TranslationField(t)])

C11_Witness ==
    /\ wf = "translation"
    /\ pc = "done"
    /\ initial_state["source_content"] = <<"y", "z">>
    /\ returned["chinese_translator"]["chinese_translation"] = << >>
    /\ returned["japanese_translator"]["japanese_translation"] = <<"a">>
    /\ returned["french_translator"]["french_translation"] = <<"a", "a">>
    /\ Contains(result[1], <<"y", "z">>)
    /\ Contains(result[1], <<"a", "a">>)


\* C15: when a node raises, the run is aborted: invoke raises to its caller and
\* returns no final state, the state is not changed by the failed step, no
\* node begins to execute afterwards (neither the next node of the chain, nor
\* the selected specialist, nor the join node), and the node that raised is
\* not executed again.
C15_AbortOnRaise ==
    \A i \in 1..Len(events) :
        events[i][1] = "raise" =>
            /\ pc = "failed"
            /\ result = << >>
            /\ \A j \in (i + 1)..Len(events) : events[j][1] # "start"
            /\ Occurrences(trace, events[i][2]) = 1
            /\ events[i][2] \notin merged
            /\ \A n \in Targets(wf, events[i][2]) \ {END} : n \notin DOMAIN seen
            /\ tasks[events[i][2]] = "failed"

C15_Witness ==
    /\ wf = "support"
    /\ pc = "failed"
    /\ events = << <<"start", "triage_agent">>, <<"return", "triage_agent">>,
                   <<"start", "hr_agent">>, <<"raise", "hr_agent">> >>
    /\ result = << >>


C17_NoNodeWithoutKey ==
    ~api_key => (events = << >> /\ DOMAIN seen = {})


\* the number of node executions of a run of workflow w that reaches END
NodeExecutions(w) ==
    CASE w = "review" -> 3
      [] w \in {"support", "linebot"} -> 2
      [] w = "translation" -> 4

\* C18: a run of each graph in which every node call returns reaches END: a
\* run that has begun eventually ends, and it ends failed only after a node
\* raised; no node is executed twice, at most 3 (review), 2 (support) and 4
\* (translation) node executions take place, and a run that reached END took
\* exactly that many and left no node scheduled.
C18_ReachesEnd ==
    /\ [](pc \in {"running", "done", "failed"} =>
            /\ Len(trace) <= NodeExecutions(wf)
            /\ \A n \in NodesOf(wf) : Occurrences(trace, n) <= 1
            /\ pc = "failed" => \E i \in 1..Len(events) : events[i][1] = "raise"
            /\ pc = "done" =>
                  /\ Len(trace) = NodeExecutions(wf)
                  /\ order = trace \/ wf = "translation"
                  /\ Len(order) = Len(trace)
                  /\ tasks = EmptyMap)
    /\ (pc = "running") ~> (pc \in {"done", "failed"})

C18_Witness ==
    /\ wf = "translation"
    /\ pc = "done"
    /\ Len(trace) = 4
    /\ trace[4] = "aggregator"
    /\ Len(events) = 8
    /\ tasks = EmptyMap


\* C19: merging two returned dicts that write disjoint fields gives the same
\* state in either order: every field has the value of the dict that writes
\* it, or the value it had.
C19_MergeCommutes ==
    (pc = "merged" /\ DOMAIN writes["u1"] \cap DOMAIN writes["u2"] = {}) =>
        /\ returned["u1u2"] = returned["u2u1"]
        /\ returned["u1u2"] =
              [k \in DOMAIN state |->
                  IF k \in DOMAIN writes["u1"] THEN writes["u1"][k]
                  ELSE IF k \in DOMAIN writes["u2"] THEN writes["u2"][k]
                  ELSE state[k]]

C19_Witness ==
    /\ pc = "merged"
    /\ DOMAIN state = TranslationState
    /\ state["source_content"] = <<"x">>
    /\ state["french_translation"] = <<"x">>
    /\ writes["u1"] = [k \in {"chinese_translation"} |-> <<"a">>]
    /\ writes["u2"] = [k \in {"japanese_translation", "french_translation"} |->
                          IF k = "french_translation" THEN << >> ELSE <<"a">>]
    /\ returned["u1u2"] = returned["u2u1"]
    /\ returned["u1u2"] # state
    /\ returned["u1u2"] # returned["u1"]

\* C20: merging an empty returned dict leaves the state as it was.
C20_MergeEmpty ==
    (pc = "merged" /\ writes["u1"] = EmptyMap) =>
        /\ returned["u1"] = state
        /\ returned["u1u2"] = returned["u2"]
        /\ returned["u2u1"] = returned["u2"]

C20_Witness ==
    /\ pc = "merged"
    /\ DOMAIN state = ContractReviewState
    /\ state["contract_content"] = <<"x">>
    /\ state["text_review"] = <<"x">>
    /\ writes["u1"] = EmptyMap
    /\ writes["u2"] # EmptyMap
    /\ returned["u1"] = state
    /\ returned["u2"] # state


\* the stream_chat calls made so far on the thread of call c, before c
Earlier(c) == {d \in DOMAIN calls : d < c /\ calls[d].thread = calls[c].thread}

\* position of message m in msgs, 0 when absent
Position(msgs, m) ==
    IF \E i \in 1..Len(msgs) : msgs[i] = m
    THEN CHOOSE i \in 1..Len(msgs) : msgs[i] = m
    ELSE 0

\* C12: when stream_chat is called again with the thread_id of a call that has
\* returned, the second call starts from the messages the first one saved:
\* the user message and the reply of the first turn are, in order, in the
\* messages the model of the second turn is called on, before the new user
\* message, and in the result of get_conversation_history for the thread.
C12_SessionContinues ==
    \A c2 \in DOMAIN calls : \A c1 \in Earlier(c2) :
        LET first == calls[c1].messages
            user1 == Message("user", calls[c1].user, c1)
            reply1 == Message("ai", "reply", c1)
            user2 == Message("user", calls[c2].user, c2)
            history == get_conversation_history(calls[c2].thread)
        IN  /\ IsPrefix(first, calls[c2].loaded)
            /\ (\A d \in Earlier(c2) : d <= c1) => calls[c2].loaded = first
            /\ calls[c1].pc = "done" =>
                  /\ 0 < Position(first, user1)
                  /\ Position(first, user1) < Position(first, reply1)
                  /\ IsPrefix(first, history)
                  /\ calls[c2].input # << >> =>
                        /\ IsPrefix(first, calls[c2].input)
                        /\ Position(calls[c2].input, user2) > Len(first)
                        /\ Position(history, user2) > Len(first)

C12_Witness ==
    /\ DOMAIN calls = {1, 2}
    /\ calls[1].thread = "A"
    /\ calls[2].thread = "A"
    /\ calls[1].pc = "done"
    /\ calls[2].pc = "done"
    /\ calls[2].tools = 1
    /\ get_conversation_history("A") =
          << Message("user", "m1", 1), Message("ai", "reply", 1),
             Message("user", "m1", 2), Message("ai", "tool_call", 2),
             Message("tool", "copy", 2), Message("ai", "reply", 2) >>


\* C13: when the model call of a turn raises, the checkpointer still holds for
\* the thread exactly the messages it held before the turn began: nothing of
\* the failed turn is saved, not even its user message.
C13_FailedTurnNotSaved ==
    \A c \in DOMAIN calls :
        (/\ calls[c].pc = "failed"
         /\ \A d \in DOMAIN calls : calls[d].thread = calls[c].thread => d <= c)
            => Saved(calls[c].thread) = calls[c].loaded

\* C14: turns on one thread_id that overlap in time lose no update: when they
\* have all returned, the messages saved for the thread contain the user
\* message and the reply of each of them.
C14_NoLostUpdate ==
    \A c1 \in DOMAIN calls :
        (/\ calls[c1].pc = "done"
         /\ \A d \in DOMAIN calls :
               calls[d].thread = calls[c1].thread => calls[d].pc = "done")
            => /\ Position(Saved(calls[c1].thread),
                           Message("user", calls[c1].user, c1)) > 0
               /\ Position(Saved(calls[c1].thread),
                           Message("ai", "reply", c1)) > 0


\* C21: route_to_specialist is a function of question_category alone: on every
\* state with the same question_category, whatever user_question and
\* agent_response hold, it returns the same target; evaluating it calls no
\* model and leaves the state as it was.
C21_RouterPure ==
    pc = "routed" =>
        /\ \A q \in Contents, a \in Answers :
              Routes(wf, "triage_agent",
                     [state EXCEPT !["user_question"] = q,
                                   !["agent_response"] = a]) = routed
        /\ state = initial_state
        /\ replies = EmptyMap
        /\ events = << >>

C21_Witness ==
    /\ pc = "routed"
    /\ wf = "support"
    /\ state["user_question"] = <<"y", "z">>
    /\ state["agent_response"] = <<"a">>
    /\ state["question_category"] = IT
    /\ routed = {"it_agent"}


\* the names of all products, and the first three order keys
AllProductNames == {PRODUCTS_DATABASE[i].name : i \in 1..Len(PRODUCTS_DATABASE)}
FirstThreeOrders == {ORDERS_DATABASE[i][1] : i \in 1..3}

\* no product matches the name / no order has the id, as the tools compare them
NoProduct(product_name) ==
    \A i \in 1..Len(PRODUCTS_DATABASE) :
        ~Matches(Strip(Lower(product_name)), PRODUCTS_DATABASE[i])

NoOrder(order_id) ==
    \A i \in 1..Len(ORDERS_DATABASE) :
        ORDERS_DATABASE[i][1] # Strip(Upper(order_id))

\* C22: a lookup that finds nothing returns text and does not raise:
\* get_product_info with a name that matches no product returns a text that
\* contains the name as given and the names of all products; get_order_status
\* with an id that is no key of the order table returns a text that contains
\* the id as given and the first three order ids, and not the fourth.
C22_NotFoundIsText ==
    /\ \A tool \in DOMAIN seen \cap {"get_product_info"} :
          NoProduct(seen[tool]) =>
              /\ pc = "returned"
              /\ result = <<ProductNotFound(seen[tool])>>
              /\ Contains(result[1], seen[tool])
              /\ \A n \in AllProductNames : Contains(result[1], n)
    /\ \A tool \in DOMAIN seen \cap {"get_order_status"} :
          NoOrder(seen[tool]) =>
              /\ pc = "returned"
              /\ result = <<OrderNotFound(seen[tool])>>
              /\ Contains(result[1], seen[tool])
              /\ \A k \in FirstThreeOrders : Contains(result[1], k)
              /\ ~Contains(result[1], ORDERS_DATABASE[4][1])

C22_Witness ==
    /\ pc = "returned"
    /\ seen = ("get_order_status" :> <<" ", "O", "5", "\n">>)
    /\ result = << <<"?", " ", "O", "5", "\n", ":", "\n",
                     "O", "1", ",", " ", "O", "2", ",", " ", "O", "3">> >>


\* the fields node n of workflow w is meant to write
WriteSet(n) ==
    CASE n \in {"text_review", "legal_review", "revision_suggestions"} -> {n}
      [] n = "triage_agent" -> {"question_category"}
      [] n \in Specialists -> {"agent_response"}
      [] n \in Translators -> {TranslationField(n)}
      [] n = "aggregator" -> {"aggregated_result"}

\* the contents of all fragments, one after the other
RECURSIVE Concatenation(_)
Concatenation(stream) ==
    IF stream = << >> THEN << >>
    ELSE Head(stream) \o Concatenation(Tail(stream))

\* C23: the field a streaming node writes is the concatenation, in order, of
\* the contents of all fragments its stream yielded; fragments without
\* content add nothing.
C23_StreamConcatenated ==
    pc = "returned" =>
        \A n \in DOMAIN returned :
            /\ DOMAIN returned[n] = WriteSet(n)
            /\ \A f \in WriteSet(n) :
                  returned[n][f] = Concatenation(replies[n])

C23_Witness ==
    /\ pc = "returned"
    /\ wf = "support"
    /\ replies = ("hr_agent" :> << <<"b">>, << >>, <<"a">> >>)
    /\ returned = ("hr_agent" :> ("agent_response" :> <<"b", "a">>))


\* C24: when the caller interrupts a run in progress, no node begins to
\* execute afterwards (not the join node, not the next node of a chain, not
\* the selected specialist), nothing more is merged into the state, and
\* invoke returns no state: no result is returned or printed for the run.
C24_NoProgressAfterCancel ==
    \A i \in 1..Len(events) :
        events[i][1] = "cancel" =>
            /\ pc = "cancelled"
            /\ result = << >>
            /\ \A j \in (i + 1)..Len(events) : events[j][1] # "start"
            /\ \A n \in DOMAIN tasks : tasks[n] # "waiting"
            /\ writes = EmptyMap \/ DOMAIN writes \cap merged = {}
            /\ \A j \in (i + 1)..Len(events) :
                  events[j][1] = "return" => events[j][2] \notin merged

C24_Witness ==
    /\ wf = "translation"
    /\ pc = "cancelled"
    /\ events = << <<"start", "chinese_translator">>,
                   <<"start", "japanese_translator">>,
                   <<"return", "chinese_translator">>,
                   <<"cancel", "main">>,
                   <<"return", "japanese_translator">> >>
    /\ tasks["french_translator"] = "cancelled"
    /\ "aggregator" \notin DOMAIN seen
    /\ result = << >>


\* the declared fields of the state of workflow w, and the field its caller fills
StateSchema(w) ==
    CASE w = "review" -> ContractReviewState
      [] w \in {"support", "linebot"} -> SupportState
      [] w = "translation" -> TranslationState

InputField(w) ==
    CASE w = "review" -> "contract_content"
      [] w \in {"support", "linebot"} -> "user_question"
      [] w = "translation" -> "source_content"

\* C25: in every run, the state passed to invoke, the state after every
\* merge, the state every node receives and the final state have exactly the
\* declared fields; a field other than the input field holds the empty text
\* as long as no dict that writes it has been merged.
C25_SchemaPreserved ==
    wf \in Workflows =>
        /\ DOMAIN initial_state = StateSchema(wf)
        /\ DOMAIN state = StateSchema(wf)
        /\ \A n \in DOMAIN seen : DOMAIN seen[n] = StateSchema(wf)
        /\ \A n \in DOMAIN returned : DOMAIN returned[n] \subseteq StateSchema(wf)
        /\ \A f \in StateSchema(wf) \ {InputField(wf)} :
              (\A n \in merged : f \notin DOMAIN returned[n]) => state[f] = << >>
        /\ \A n \in DOMAIN seen :
              \A f \in StateSchema(wf) \ {InputField(wf)} :
                 (\A m \in DOMAIN returned :
                     f \in DOMAIN returned[m] => seen[n][f] # returned[m][f])
                    => seen[n][f] = << >>

C25_Witness ==
    /\ wf = "translation"
    /\ pc = "running"
    /\ merged = Translators
    /\ "aggregator" \in DOMAIN seen
    /\ state["aggregated_result"] = << >>
    /\ state["french_translation"] = <<"a", "a">>
    /\ state["japanese_translation"] = << >>
    /\ DOMAIN state = TranslationState


\* C26: no node function changes the dict it received: from the call of invoke
\* on, no step of the run changes the state object a node was handed, nor the
\* initial_state of the caller, which has after the run the values it had
\* before.
C26_NoInPlaceMutation ==
    [][events' # << >> =>
          /\ initial_state' = initial_state
          /\ \A n \in DOMAIN seen : n \in DOMAIN seen' /\ seen'[n] = seen[n]
          /\ \A n \in DOMAIN returned' \ DOMAIN returned :
                \A f \in DOMAIN seen'[n] \cap DOMAIN returned'[n] :
                    \/ seen'[n][f] = state[f]
                    \/ wf' # wf]_vars

C26_Witness ==
    /\ wf = "review"
    /\ pc = "done"
    /\ returned["text_review"]["text_review"] = <<"a">>
    /\ seen["text_review"] = initial_state
    /\ seen["text_review"]["text_review"] = << >>
    /\ state # initial_state
    /\ initial_state = ReviewInitialState(<<"y", "z">>)


\* the stream_chat calls that take a step, or begin, in the current step
Active == {c \in DOMAIN calls' : c \notin DOMAIN calls \/ calls'[c] # calls[c]}

\* C27: a thread exists from the first stream_chat call that uses its id and
\* is never dropped: whatever new_conversation and stream_chat calls follow,
\* get_conversation_history(thread_id) still returns the messages saved for
\* it, with at most new messages appended, and a step of a call on another
\* thread id, or new_conversation, leaves them as they are.
C27_SessionsKept ==
    [][/\ \A c \in DOMAIN calls' :
             calls'[c].pc # "input" => calls'[c].thread \in DOMAIN checkpointer'
       /\ \A t \in DOMAIN checkpointer :
             /\ t \in DOMAIN checkpointer'
             /\ IsPrefix(get_conversation_history(t),
                         get_conversation_history(t)')
             /\ (\A c \in Active : calls'[c].thread # t) =>
                   get_conversation_history(t)' = get_conversation_history(t)
      ]_vars

C27_Witness ==
    /\ DOMAIN calls = {1, 2, 3}
    /\ calls[1].thread = "A"
    /\ calls[2].thread = "u1"
    /\ calls[3].thread = "u2"
    /\ calls[3].pc = "done"
    /\ current_thread_id = "u2"
    /\ get_conversation_history("A") =
          <<Message("user", "m1", 1), Message("ai", "reply", 1)>>
    /\ get_conversation_history("u1") = <<Message("user", "m1", 2)>>
    /\ Len(get_conversation_history("None")) = 2


\* C28: in every run of the support workflow the router is evaluated on the
\* category triage_agent returned, never on the empty question_category of
\* the initial state: a specialist is chosen only when triage_agent has
\* returned, it is the one of the returned category, compliance_agent is
\* chosen only for the category "compliance", and the specialist begins only
\* when triage_agent's dict has been merged, and receives that category.
C28_RouterAfterTriage ==
    SupportRun =>
        \A n \in Specialists :
            (n \in routed \/ n \in DOMAIN tasks \/ n \in DOMAIN seen) =>
                /\ "triage_agent" \in DOMAIN returned
                /\ LET category == returned["triage_agent"]["question_category"]
                   IN  /\ category # initial_state["question_category"]
                       /\ category \in {HR, IT, COMPLIANCE}
                       /\ n = "hr_agent" <=> category = HR
                       /\ n = "it_agent" <=> category = IT
                       /\ n = "compliance_agent" <=> category = COMPLIANCE
                       /\ n \in DOMAIN seen =>
                             /\ "triage_agent" \in merged
                             /\ seen[n]["question_category"] = category

C28_Witness ==
    /\ wf = "support"
    /\ pc = "running"
    /\ routed = {"compliance_agent"}
    /\ "triage_agent" \in DOMAIN returned
    /\ returned["triage_agent"]["question_category"] = COMPLIANCE
    /\ state["question_category"] = << >>
    /\ "triage_agent" \notin merged


\* C29: whatever the classifier replied, the dict triage_agent returned holds
\* exactly question_category with one of hr, it, compliance; so once that dict
\* is merged, and in the final state of a run, question_category of the state
\* is one of the three, and it is the value triage_agent returned.
C29_CategoryValid ==
    SupportRun =>
        /\ "triage_agent" \in DOMAIN returned =>
              /\ "triage_agent" \in DOMAIN replies
              /\ replies["triage_agent"] \in Replies
              /\ DOMAIN returned["triage_agent"] = {"question_category"}
              /\ returned["triage_agent"]["question_category"]
                    \in {HR, IT, COMPLIANCE}
        /\ ("triage_agent" \in merged \/ pc = "done") =>
              /\ "triage_agent" \in DOMAIN returned
              /\ state["question_category"] \in {HR, IT, COMPLIANCE}
              /\ state["question_category"] =
                    returned["triage_agent"]["question_category"]

C29_Witness ==
    /\ wf = "linebot"
    /\ pc = "done"
    /\ "triage_agent" \in DOMAIN replies
    /\ replies["triage_agent"] = <<"o", "t", "h", "e", "r">>
    /\ state["question_category"] = IT


\* C30: the dict a node returns holds its own designated field and no other;
\* so two translators never write the same field, no node returns twice in a
\* run (each translation field is written at most once), a field of the state
\* differs from the caller's value only when a node that writes it has been
\* merged, and the caller's input field keeps its value to the final state.
C30_OwnFieldOnly ==
    wf \in Workflows =>
        /\ \A n \in DOMAIN returned :
              /\ DOMAIN returned[n] = WriteSet(n)
              /\ Occurrences(order, n) = 1
              /\ InputField(wf) \notin DOMAIN returned[n]
        /\ \A t1 \in Translators \cap DOMAIN returned :
              \A t2 \in (Translators \cap DOMAIN returned) \ {t1} :
                  DOMAIN returned[t1] \cap DOMAIN returned[t2] = {}
        /\ \A f \in DOMAIN state :
              state[f] # initial_state[f] =>
                  \E n \in merged : f \in WriteSet(n)
        /\ pc \in {"running", "done", "failed"} =>
              state[InputField(wf)] = initial_state[InputField(wf)]

C30_Witness ==
    /\ wf = "translation"
    /\ pc = "done"
    /\ Translators \subseteq DOMAIN returned
    /\ state["source_content"] = initial_state["source_content"]
    /\ state["chinese_translation"] = <<"a">>
    /\ state["japanese_translation"] = <<"a", "a">>
    /\ state["french_translation"] = << >>
    /\ state["aggregated_result"] # << >>


\* the specialist the graph hands a classifier reply to
SpecialistOf(content) ==
    LET category == Lower(Strip(content))
    IN  CASE category = HR -> "hr_agent"
          [] category = COMPLIANCE -> "compliance_agent"
          [] OTHER -> "it_agent"

\* a call of process_support_request begins
RequestBegins == pc # "running" /\ pc' = "running" /\ wf' \in {"support", "linebot"}

\* C31: every support request begins with a fresh state (the question, empty
\* question_category and agent_response), with nothing kept of the request
\* before and with no checkpoint; the nodes that run, the final state and the
\* value returned are determined by the question of this request and the
\* collaborator's replies within it; the text sent by the webhook service is
\* that value or the apology, whatever the sender's user id is.
C31_RequestsIndependent ==
    /\ [][RequestBegins =>
            /\ \E question \in Contents :
                  /\ initial_state' = [ user_question |-> question,
                                        question_category |-> << >>,
                                        agent_response |-> << >> ]
                  /\ state' = initial_state'
            /\ tasks' = [n \in {"triage_agent"} |-> "waiting"]
            /\ seen' = EmptyMap /\ writes' = EmptyMap /\ routed' = {}
            /\ replies' = EmptyMap /\ returned' = EmptyMap
            /\ events' = << >> /\ merged' = {}
            /\ result' = << >> /\ sent' = << >>]_vars
    /\ [](SupportRun =>
            /\ checkpointer = EmptyMap
            /\ state["user_question"] = initial_state["user_question"]
            /\ \A n \in Specialists \cap DOMAIN seen :
                  /\ "triage_agent" \in DOMAIN replies
                  /\ n = SpecialistOf(replies["triage_agent"])
                  /\ seen[n]["user_question"] = initial_state["user_question"]
            /\ pc = "done" =>
                  LET n == SpecialistOf(replies["triage_agent"])
                  IN  /\ trace = <<"triage_agent", n>>
                      /\ state = Merge(Merge(initial_state,
                                             returned["triage_agent"]),
                                       returned[n])
                      /\ wf = "linebot" =>
                            returned[n] = ("agent_response" :> replies[n])
                      /\ result = <<returned[n]["agent_response"]>>
            /\ sent # << >> =>
                  sent[1].text = IF pc = "done" THEN result[1] ELSE Apology)

C31_Witness ==
    /\ wf = "linebot"
    /\ pc = "done"
    /\ event = <<"t1", "U2", "signed">>
    /\ http_response = "OK"
    /\ initial_state["user_question"] = <<"y", "z">>
    /\ "triage_agent" \in DOMAIN replies
    /\ replies["triage_agent"] = <<" ", "H", "R", "\n">>
    /\ trace = <<"triage_agent", "hr_agent">>
    /\ replies["hr_agent"] # << >>
    /\ sent = <<[reply_token |-> "t1", text |-> replies["hr_agent"]]>>


\* the thread of the stream_chat call that added message m
ThreadOf(m) == calls[m.call].thread

AllOfThread(msgs, tid) == \A i \in 1..Len(msgs) : ThreadOf(msgs[i]) = tid

\* C32: the messages saved for a thread id were all added by turns run under
\* that id; a turn loads the history of its own id, gives the model only
\* messages of that id and extends what it loaded; the id new_conversation
\* has just returned has an empty history.
C32_ThreadsSeparated ==
    /\ \A tid \in DOMAIN checkpointer : AllOfThread(checkpointer[tid], tid)
    /\ \A c \in DOMAIN calls :
          /\ AllOfThread(calls[c].loaded, calls[c].thread)
          /\ AllOfThread(calls[c].input, calls[c].thread)
          /\ AllOfThread(calls[c].messages, calls[c].thread)
          /\ IsPrefix(calls[c].loaded, calls[c].messages)
          /\ calls[c].pc \notin {"input"} =>
                /\ Len(calls[c].messages) > Len(calls[c].loaded)
                /\ calls[c].messages[Len(calls[c].loaded) + 1]
                      = Message("user", calls[c].user, c)
    /\ ( /\ current_thread_id # "None"
         /\ \A c \in DOMAIN calls : calls[c].thread # current_thread_id ) =>
            get_conversation_history("None") = << >>

C32_Witness ==
    /\ DOMAIN checkpointer = {"A", "u1"}
    /\ Len(checkpointer["A"]) = 2
    /\ Len(checkpointer["u1"]) = 2
    /\ checkpointer["A"][1].call # checkpointer["u1"][1].call
    /\ current_thread_id = "u2"
    /\ get_conversation_history("None") = << >>


\* the stream_chat calls that begin in a step
Begun == DOMAIN calls' \ DOMAIN calls

\* C33: a stream_chat call with a non-empty thread_id runs its turn under that
\* id and makes it the current one; with no (or an empty) thread_id and no
\* current id it runs under a newly generated id, which no earlier turn used;
\* with no thread_id and a current id it runs under the current id, which
\* stays as it is. Whenever a turn is executed current_thread_id is set and
\* is the id of the turn.
C33_ThreadChoice ==
    /\ [][\A c \in Begun :
            LET arg == calls'[c].thread_id
                tid == calls'[c].thread
            IN  /\ current_thread_id' = tid
                /\ calls'[c].loaded = Saved(tid)
                /\ bool(arg) => tid = arg /\ uuids' = uuids
                /\ (~bool(arg) /\ ~bool(current_thread_id)) =>
                      /\ tid = Uuid(uuids + 1)
                      /\ uuids' = uuids + 1
                      /\ tid \notin DOMAIN checkpointer
                      /\ \A d \in DOMAIN calls : calls[d].thread # tid
                /\ (~bool(arg) /\ bool(current_thread_id)) =>
                      /\ tid = current_thread_id
                      /\ current_thread_id' = current_thread_id
                      /\ uuids' = uuids]_vars
    /\ [](\A c \in DOMAIN calls :
            /\ bool(calls[c].thread)
            /\ c \in InProgress => current_thread_id = calls[c].thread
            /\ calls[c].pc # "input" => calls[c].thread \in DOMAIN checkpointer)

C33_Witness ==
    /\ DOMAIN calls = {1, 2, 3}
    /\ calls[1].thread_id = "None" /\ calls[1].thread = "u1"
    /\ calls[2].thread_id = "A" /\ calls[2].thread = "A"
    /\ calls[3].thread_id = "" /\ calls[3].thread = "A"
    /\ calls[3].pc = "done"
    /\ current_thread_id = "A"
    /\ uuids = 1


\* the variables of a workflow run
run_vars == <<pc, wf, initial_state, state, tasks, seen, writes, routed,
              replies, returned, events, merged, result>>

\* C34: the webhook endpoint handles the message event only when the
\* signature check has passed: when it raised InvalidSignatureError the
\* endpoint answers 400, no workflow is begun or advanced and nothing is sent;
\* a workflow of the webhook service runs only within a request whose check
\* passed, and "OK" is returned when the event has been handled, that is when
\* the workflow has ended and the reply has been sent.
C34_SignatureFirst ==
    /\ [][http_response' = "400" => UNCHANGED run_vars]_vars
    /\ [](http_response = "400" =>
            /\ event = << >>
            /\ sent = << >>
            /\ pc # "running"
            /\ Running = {})
    /\ [](event # << >> => ~InvalidSignatureError(event[3]))
    /\ []((wf = "linebot" /\ (pc = "running" \/ Running # {})) =>
            /\ http_response = "pending"
            /\ event # << >>)
    /\ [](http_response = "OK" =>
            /\ wf = "linebot"
            /\ pc \in {"done", "failed"}
            /\ Running = {}
            /\ event # << >>
            /\ Len(sent) = 1
            /\ sent[1].reply_token = event[1])

C34_Witness ==
    /\ http_response = "400"
    /\ wf = "linebot"
    /\ pc = "done"
    /\ result # << >>
    /\ sent = << >>
    /\ event = << >>


\* the orders whose key is the id trimmed of surrounding whitespace and upper-cased
OrdersOf(order_id) ==
    {i \in 1..Len(ORDERS_DATABASE) : ORDERS_DATABASE[i][1] = Upper(Strip(order_id))}

\* C35: when the id, trimmed and upper-cased, is a key of the order table,
\* get_order_status returns the description of the order of that key, with
\* its id, status, product, quantity and amount, and of no other order; for
\* every other id it returns the not-found text.
C35_OrderLookup ==
    \A tool \in DOMAIN seen \cap {"get_order_status"} :
        LET order_id == seen[tool]
        IN  /\ pc = "returned"
            /\ Cardinality(OrdersOf(order_id)) <= 1
            /\ \A i \in OrdersOf(order_id) :
                  LET rec == ORDERS_DATABASE[i][2]
                  IN  /\ result = <<OrderInfo(rec)>>
                      /\ rec.order_id = Upper(Strip(order_id))
                      /\ \A f \in {"order_id", "status", "product",
                                   "quantity", "total_amount"} :
                            Contains(result[1], rec[f])
                      /\ \A j \in (1..Len(ORDERS_DATABASE)) \ {i} :
                            ~Contains(result[1], ORDERS_DATABASE[j][1])
            /\ OrdersOf(order_id) = {} =>
                  result = <<OrderNotFound(order_id)>>

C35_Witness ==
    /\ pc = "returned"
    /\ seen = ("get_order_status" :> <<" ", "o", "2", "\n">>)
    /\ result # << >>
    /\ Contains(result[1], <<"O", "2">>)
    /\ Contains(result[1], <<"T", "I", " ", "c", "w">>)
    /\ ~Contains(result[1], <<"?">>)

\* C36: get_order_status returns normally for every order of the table: the
\* fields read for the order's status_code are fields of its record, so a call
\* with the key of a stored order, however written, returns the order's text
\* and raises no missing-field error.
C36_StoredOrdersReturn ==
    /\ \A i \in 1..Len(ORDERS_DATABASE) :
          LET rec == ORDERS_DATABASE[i][2]
          IN  /\ rec.status_code
                    \in {"delivered", "shipping", "processing", "cancelled"}
              /\ FieldsRead(rec) \subseteq DOMAIN rec
              /\ ~Raises(get_order_status(ORDERS_DATABASE[i][1]))
    /\ \A tool \in DOMAIN seen \cap {"get_order_status"} :
          /\ ~Raises(returned[tool])
          /\ ~NoOrder(seen[tool]) =>
                /\ pc = "returned"
                /\ \E i \in 1..Len(ORDERS_DATABASE) :
                      LET rec == ORDERS_DATABASE[i][2]
                      IN  /\ returned[tool] = Return(OrderInfo(rec))
                          /\ \A f \in FieldsRead(rec) \ {"status_code"} :
                                Contains(OrderInfo(rec), rec[f])

C36_Witness ==
    /\ pc = "returned"
    /\ seen = ("get_order_status" :> <<"o", "4">>)
    /\ returned["get_order_status"] = Return(OrderInfo(ORDERS_DATABASE[4][2]))
    /\ Contains(result[1], ORDERS_DATABASE[4][2].refund_status)
    /\ "shipping_address" \notin DOMAIN ORDERS_DATABASE[4][2]


\* the product name trimmed of surrounding whitespace and lower-cased
SearchTerm(product_name) == Lower(Strip(product_name))

\* the texts of a product the search looks at: key, name and features
SearchedTexts(p) ==
    {p.key, p.name} \cup {p.features[j] : j \in 1..Len(p.features)}

\* the products, by position, with a searched text that contains the term as
\* the table spells it
FoundAsSpelled(product_name) ==
    {i \in 1..Len(PRODUCTS_DATABASE) :
        \E text \in SearchedTexts(PRODUCTS_DATABASE[i]) :
            Contains(text, SearchTerm(product_name))}

\* the same, with the searched texts lower-cased too
FoundLowered(product_name) ==
    {i \in 1..Len(PRODUCTS_DATABASE) :
        \E text \in SearchedTexts(PRODUCTS_DATABASE[i]) :
            Contains(Lower(text), SearchTerm(product_name))}

First(found) == CHOOSE i \in found : \A j \in found : i <= j

\* C37 as stated: get_product_info returns the not-found text exactly when the
\* trimmed, lower-cased name is a substring of no product's key, name or
\* feature, and else the first product of which it is.
C37_SearchAsSpelled ==
    \A tool \in DOMAIN seen \cap {"get_product_info"} :
        LET found == FoundAsSpelled(seen[tool])
        IN  /\ result = <<ProductNotFound(seen[tool])>> <=> found = {}
            /\ found # {} =>
                  result = <<ProductInfo(PRODUCTS_DATABASE[First(found)])>>

\* C37, amended: get_product_info compares the trimmed, lower-cased name with
\* the lower-cased key, name and features: it returns the not-found text
\* exactly when the term is a substring of none of them, else the information
\* of the first product, in table order, of which it is; an empty or
\* whitespace-only name yields the first product of the table.
C37_SearchLowered ==
    \A tool \in DOMAIN seen \cap {"get_product_info"} :
        LET found == FoundLowered(seen[tool])
        IN  /\ pc = "returned"
            /\ result = <<ProductNotFound(seen[tool])>> <=> found = {}
            /\ found # {} =>
                  result = <<ProductInfo(PRODUCTS_DATABASE[First(found)])>>
            /\ Strip(seen[tool]) = << >> =>
                  /\ found = 1..Len(PRODUCTS_DATABASE)
                  /\ result = <<ProductInfo(PRODUCTS_DATABASE[1])>>

C37_Witness ==
    /\ pc = "returned"
    /\ seen = ("get_product_info" :> <<" ", "R", "T", "\n">>)
    /\ FoundAsSpelled(seen["get_product_info"]) = {}
    /\ FoundLowered(seen["get_product_info"]) = {2}
    /\ result = <<ProductInfo(PRODUCTS_DATABASE[2])>>

====
